---- MODULE Spec2Model ----
(***************************************************************************)
(* HL7 Community Digest: the chat (Zulip) aggregation pipeline and the     *)
(* wiki (Confluence) batch scraper, as state machines.                     *)
(*                                                                         *)
(* Time is counted in whole hours.  A message is a record that may lack    *)
(* any of its keys, as a JSON object may; the accessors below give the     *)
(* defaults the code gives with dict.get.                                  *)
(***************************************************************************)
EXTENDS Integers, Sequences, FiniteSets, TLC

\* ---------------------------------------------------------------- constants

\* "num_before": 100 -- the page size asked of the messages endpoint
PageSize == 100

\* if len(messages) >= 500 -- the safety limit of _get_messages
MessageLimit == 500

\* lookback_days: int = 7
LookbackDays == 7

\* recent_hours: int = 24
RecentHours == 24

\* is_trending=recent_messages >= 5
TrendingThreshold == 5

\* topic_summaries[:5]
TopTopics == 5

\* stop=stop_after_attempt(3)
MaxAttempts == 3

\* content[:500], where _clean_content looks for dates
DateWindow == 500

\* len(date_matches) >= 3
IndexDates == 3

\* unique_dates[:3]
TopDates == 3

\* the {3,} of the task-list pattern
TaskListDates == 3

\* if len(cleaned) > 500
MaxCleaned == 500

\* if sentence_end > 100
MinSentenceEnd == 100

\* RECENT_DAYS = 7
RecentDays == 7

\* elif delta.days <= 7
FreshDays == 7

\* elif delta.days <= 30
AgingDays == 30

HoursPerDay == 24

\* anchor = "newest": the anchor before any page was read; no message id is 0
Newest == 0

\* ------------------------------------------------------------------- bounds

\* the hour at which scrape_source reads the clock
Now == 1000

\* remote pages hold PageSize - PageSlack .. PageSize messages
PageSlack == 1

\* topics of the remote stream in the aggregation runs
NTopics == 6

\* recent messages per topic in the aggregation runs
MaxRecent == 2

\* topics of the remote stream that may also hold a message older than the
\* default recent window
MaxOlder == 2

\* messages of the topic handed to _summarize_topic
MaxTopicInput == 3

\* blocks of the text handed to _clean_content
MaxBlocks == 4

\* channels handed to ZulipScraper.scrape_all
NChannels == 3

\* wiki sources handed to ConfluenceScraper.scrape_all
NSources == 3

\* messages of the input of _group_by_topic in the grouping runs
MaxGroupInput == 4

\* Python's None
None == [none |-> TRUE]

VARIABLES
  lookback_days,   \* self.lookback_days
  recent_hours,    \* self.recent_hours
  since_ts,        \* since.timestamp() in _get_messages (lookback_since)
  recent_ts,       \* recent_since.timestamp()
  history,         \* the remote stream, oldest first (aggregation runs)
  messages,        \* the list accumulated by _get_messages
  anchor,          \* the pagination anchor: Newest or a message id
  seen_oldest,     \* the loop flag of _get_messages
  batch,           \* the page last received
  requests,        \* page requests made so far
  pc,              \* where scrape_source is
  topics,          \* the result of _group_by_topic
  recent_topics,   \* the result of _filter_recent_topics
  content,         \* what scrape_source returned: None or a record
  request_failed,  \* a page request of _get_messages raised
  summarizer,      \* self.use_ai_summary and how the anthropic client behaves
  summary,         \* what _summarize_topic returned
  z_sources,       \* the channels handed to ZulipScraper.scrape_all
  z_idx,           \* the channel the for loop of scrape_all is at
  z_results,       \* results of scrape_all
  z_outcomes,      \* how scrape_source ended for each channel so far
  z_pc,            \* where ZulipScraper.scrape_all is
  c_sources,       \* the sources handed to ConfluenceScraper.scrape_all
  c_idx,           \* the source the for loop of scrape_all is at
  c_attempt,       \* attempts of _fetch_page made for that source
  c_last,          \* what the latest attempt of _fetch_page met
  c_results,       \* results of scrape_all
  c_outcomes,      \* how scrape_page ended for each source so far
  c_pc,            \* where scrape_all is
  raw,             \* the text handed to _clean_content
  cleaned_content, \* what _clean_content made of it
  cleaned_again,   \* what _clean_content made of that
  page,            \* the ConfluencePageContent being summarized
  page_summary,    \* the ContentSummary made of it
  confluence_content,  \* the wiki contents handed to create_digest
  zulip_content,   \* the chat contents handed to create_digest, or None
  digest,          \* the sections of the Digest that create_digest returned
  f_pc,            \* where the DigestFormatter is
  topic_entries,   \* the topics scrape_source renders: name, count, summary
  combined,        \* the combined content string made of them
  html,            \* what format_html and its helpers rendered
  fetched,         \* the elements of the HTML that _fetch_page returned
  meeting_links,   \* what extractMeetingLinks returned for it
  confluence_scraper  \* the ConfluenceScraper: self.timeout, and how it was made

zvars == <<lookback_days, recent_hours, since_ts, recent_ts, history, messages,
           anchor, seen_oldest, batch, requests, pc, topics, recent_topics,
           content, request_failed, summarizer, summary>>

avars == <<z_sources, z_idx, z_results, z_outcomes, z_pc>>

cvars == <<c_sources, c_idx, c_attempt, c_last, c_results, c_outcomes, c_pc>>

fvars == <<raw, cleaned_content, cleaned_again, page, page_summary, confluence_content,
           zulip_content, digest, f_pc, topic_entries, combined, html>>

\* what the steps before the rendering leave alone
hvars == <<topic_entries, combined, html>>

\* the parsing of a fetched page
xvars == <<fetched, meeting_links, confluence_scraper>>

vars == <<zvars, avars, cvars, fvars, xvars>>

\* what the steps of ZulipScraper.scrape_source leave alone
exceptZulip == <<avars, cvars, fvars, xvars>>

\* what the steps of ConfluenceScraper leave alone
exceptConfluence == <<zvars, avars, fvars, xvars>>

\* what the steps of the DigestFormatter leave alone
exceptFormatter == <<zvars, avars, cvars, xvars>>

\* ----------------------------------------------------------------- messages

\* msg.get("timestamp", 0)
Timestamp(msg) == IF "timestamp" \in DOMAIN msg THEN msg.timestamp ELSE 0

\* msg.get("subject", "")
Subject(msg) == IF "subject" \in DOMAIN msg THEN msg.subject ELSE ""

\* msg.get("sender_full_name", "Unknown")
Sender(msg) ==
  IF "sender_full_name" \in DOMAIN msg THEN msg.sender_full_name ELSE "Unknown"

Last(s) == s[Len(s)]

\* ------------------------------------------------------------ _get_messages

\* self.use_ai_summary is False
NoSummarizer == [use_ai_summary |-> FALSE]

\* no batch of channels is being scraped
ScrapeAllIdle ==
  /\ z_sources = <<>>
  /\ z_idx = 0
  /\ z_results = <<>>
  /\ z_outcomes = <<>>
  /\ z_pc = "idle"

\* self.timeout of a ConfluenceScraper constructed with no argument
DefaultTimeout == 60

\* ConfluenceScraper.__init__(self, timeout=60), args being the arguments of
\* the call: the object, with the way it was constructed beside its field
ConfluenceScraper(args) ==
  [args |-> args, timeout |-> IF args = <<>> THEN DefaultTimeout ELSE args[1]]

\* no fetched page is being parsed, and the scraper is the one that
\* DigestRunner.__init__ made: ConfluenceScraper()
ExtractIdle ==
  /\ fetched = <<>>
  /\ meeting_links = <<>>
  /\ confluence_scraper = ConfluenceScraper(<<>>)

\* no digest is being made
FormatterIdle ==
  /\ raw = <<>>
  /\ cleaned_content = <<>>
  /\ cleaned_again = <<>>
  /\ page = None
  /\ page_summary = None
  /\ confluence_content = <<>>
  /\ zulip_content = None
  /\ digest = None
  /\ topic_entries = <<>>
  /\ combined = <<>>
  /\ html = None
  /\ f_pc = "idle"

\* no batch of wiki sources is being scraped
ConfluenceIdle ==
  /\ c_sources = <<>>
  /\ c_idx = 0
  /\ c_attempt = 0
  /\ c_last = ""
  /\ c_results = <<>>
  /\ c_outcomes = <<>>
  /\ c_pc = "idle"

\* the filter forgotten: every message of the page is appended
KeepAnyMessage(msg, since) == TRUE

\* if msg_ts >= since_ts: messages.append(msg)
KeepMessage(msg, since) == Timestamp(msg) >= since

\* for msg in batch: the messages appended, in batch order; the scan goes on
\* to the end of the batch whether or not an older message was met
KeptOf(b, since) == SelectSeq(b, LAMBDA msg : KeepMessage(msg, since))

\* for msg in batch: ... else: seen_oldest = True
SeenOlder(b, since) == \E i \in 1..Len(b) : ~KeepMessage(b[i], since)

\* if new_anchor == anchor: break
AnchorStuck(new_anchor, old_anchor) == new_anchor = old_anchor

\* the safety limit left out
HitLimitNever(msgs) == FALSE

\* the safety limit compared with > instead of >=
HitLimitAbove(msgs) == Len(msgs) > MessageLimit

\* if len(messages) >= 500: break
HitLimit(msgs) == Len(msgs) >= MessageLimit

\* One pass of the while loop whose request was answered with page b.
GetMessagesPage(b) ==
  /\ pc = "get_messages"
  /\ ~seen_oldest
  /\ requests' = requests + 1
  /\ batch' = b
  /\ IF b = <<>>
     THEN \* if not batch: break
          /\ pc' = "fetched"
          /\ UNCHANGED <<messages, seen_oldest, anchor>>
     ELSE LET oldest_msg == Last(b)
          IN /\ messages' = messages \o KeptOf(b, since_ts)
             /\ seen_oldest' = SeenOlder(b, since_ts)
             /\ IF seen_oldest'
                THEN \* if seen_oldest: break
                     pc' = "fetched" /\ anchor' = anchor
                ELSE IF Timestamp(oldest_msg) < since_ts
                THEN pc' = "fetched" /\ anchor' = anchor
                ELSE IF "id" \notin DOMAIN oldest_msg
                THEN \* oldest_msg["id"] raises KeyError: except ...: break
                     pc' = "fetched" /\ anchor' = anchor
                ELSE IF AnchorStuck(oldest_msg.id, anchor)
                THEN pc' = "fetched" /\ anchor' = anchor
                ELSE /\ anchor' = oldest_msg.id
                     /\ pc' = IF HitLimit(messages') THEN "fetched"
                              ELSE "get_messages"
  /\ UNCHANGED exceptZulip
  /\ UNCHANGED <<summarizer, summary, lookback_days, recent_hours, since_ts, recent_ts, history,
                 topics, recent_topics, content, request_failed>>

\* self._api_get raises (network error, timeout, HTTP error status):
\* except Exception: break
GetMessagesFail ==
  /\ pc = "get_messages"
  /\ ~seen_oldest
  /\ requests' = requests + 1
  /\ pc' = "fetched"
  /\ request_failed' = TRUE
  /\ UNCHANGED exceptZulip
  /\ UNCHANGED <<summarizer, summary, lookback_days, recent_hours, since_ts, recent_ts, history,
                 messages, anchor, seen_oldest, batch, topics, recent_topics,
                 content>>

\* ------------------------------------------- the remote of the paging runs

\* the id of the newest message of the stream
NewestId == 2 * MessageLimit

\* the last id of a page the remote has not served before
FreshLast == NewestId - requests * PageSize

BulkKinds == {"fresh", "old_first", "old_last", "no_timestamp", "no_id"}

\* A page of n messages with ascending ids ending at last.
BulkMessage(i, n, last, kind) ==
  LET id == last - n + i
      ts == CASE kind = "old_first" /\ i = 1 -> since_ts - 1
              [] kind = "old_last" /\ i = n -> since_ts - 1
              [] i = 1 -> since_ts
              [] OTHER -> since_ts + 1
      base == [subject |-> "stream events", sender_full_name |-> "alice"]
  IN IF kind = "no_timestamp" /\ i = 2
     THEN [id |-> id] @@ base
     ELSE IF kind = "no_id" /\ i = n
     THEN [timestamp |-> ts] @@ base
     ELSE [id |-> id, timestamp |-> ts] @@ base

BulkBatch(n, last, kind) == [i \in 1..n |-> BulkMessage(i, n, last, kind)]

\* what the remote may answer: a new page, or the page ending at the anchor again
BulkLasts == {FreshLast} \cup (IF anchor = Newest THEN {} ELSE {anchor})

BulkPage ==
  \E n \in (PageSize - PageSlack)..PageSize, last \in BulkLasts, kind \in BulkKinds :
    GetMessagesPage(BulkBatch(n, last, kind))

EmptyPage == GetMessagesPage(<<>>)

\* ------------------------------------------------------ the paging runs

\* a scraper with the default windows that has read the clock and nothing else
ZulipIdle ==
  /\ lookback_days = LookbackDays
  /\ recent_hours = RecentHours
  /\ since_ts = Now - LookbackDays * HoursPerDay
  /\ recent_ts = Now - RecentHours
  /\ history = <<>>
  /\ anchor = Newest
  /\ seen_oldest = FALSE
  /\ batch = <<>>
  /\ requests = 0
  /\ topics = None
  /\ recent_topics = None
  /\ content = None
  /\ request_failed = FALSE

InitPaging ==
  /\ ZulipIdle
  /\ messages = <<>>
  /\ pc = "get_messages"
  /\ summarizer = NoSummarizer
  /\ summary = <<>>
  /\ ExtractIdle
  /\ ScrapeAllIdle
  /\ ConfluenceIdle
  /\ FormatterIdle

NextPaging == BulkPage \/ EmptyPage \/ GetMessagesFail

\* The loop is sequential code and every request returns or raises within its
\* timeout, so a pass that can be made is made.
SpecPaging == InitPaging /\ [][NextPaging]_vars /\ WF_vars(NextPaging)

\* ------------------------------------------------------- _group_by_topic

\* A dict is modelled by its keys in insertion order and its values.
EmptyDict == [keys |-> <<>>, vals |-> <<>>]

\* the append put in an else branch: the first message of a topic is lost
PutMessageElse(d, msg) ==
  LET topic == Subject(msg)
  IN IF topic \in DOMAIN d.vals
     THEN [d EXCEPT !.vals[topic] = Append(@, msg)]
     ELSE [keys |-> Append(d.keys, topic), vals |-> d.vals @@ (topic :> <<>>)]

\* topics[topic].append(msg), after topics[topic] = [] for a topic not seen
PutMessage(d, msg) ==
  LET topic == Subject(msg)
      d1 == IF topic \in DOMAIN d.vals THEN d
            ELSE [keys |-> Append(d.keys, topic), vals |-> d.vals @@ (topic :> <<>>)]
  IN [d1 EXCEPT !.vals[topic] = Append(@, msg)]

RECURSIVE GroupFrom(_, _, _)
GroupFrom(msgs, i, d) ==
  IF i > Len(msgs) THEN d ELSE GroupFrom(msgs, i + 1, PutMessage(d, msgs[i]))

GroupByTopic(msgs) == GroupFrom(msgs, 1, EmptyDict)

\* ------------------------------------------------- _filter_recent_topics

\* msg.get("timestamp", 0) >= recent_ts
IsRecent(msg, recent) == Timestamp(msg) >= recent

\* all(...) written for any(...)
HasOnlyRecent(msgs, recent) == \A i \in 1..Len(msgs) : IsRecent(msgs[i], recent)

\* has_recent = any(... for msg in messages)
HasRecent(msgs, recent) == \E i \in 1..Len(msgs) : IsRecent(msgs[i], recent)

RECURSIVE FilterFrom(_, _, _, _)
FilterFrom(d, i, recent, filtered) ==
  IF i > Len(d.keys) THEN filtered
  ELSE LET topic == d.keys[i]
       IN FilterFrom(d, i + 1, recent,
            IF HasRecent(d.vals[topic], recent)
            THEN [keys |-> Append(filtered.keys, topic),
                  vals |-> filtered.vals @@ (topic :> d.vals[topic])]
            ELSE filtered)

FilterRecentTopics(d, recent) == FilterFrom(d, 1, recent, EmptyDict)

\* ---------------------------------------------------------- scrape_source

\* msg.get("content", "")
Content(msg) == IF "content" \in DOMAIN msg THEN msg.content ELSE ""

\* sorted(messages, key=timestamp)[0]: the first message of least timestamp
Earliest(msgs) ==
  LET i == CHOOSE i \in 1..Len(msgs) :
             /\ \A j \in 1..Len(msgs) : Timestamp(msgs[i]) <= Timestamp(msgs[j])
             /\ \A j \in 1..(i - 1) : Timestamp(msgs[j]) > Timestamp(msgs[i])
  IN msgs[i]

\* _fallback_summary: a preview of the earliest message
FallbackSummary(msgs) ==
  IF msgs = <<>> THEN <<"No messages in this thread.", "">>
  ELSE <<"Discussion started", Content(Earliest(msgs))>>

\* The summarizer: absent (no ANTHROPIC_API_KEY), or present, and then what
\* the try block of _summarize_topic meets: the import fails, the request
\* raises, the response has an empty content list, or a text comes back.
Summarizers ==
  {NoSummarizer,
   [use_ai_summary |-> TRUE, raises |-> "ImportError"],
   [use_ai_summary |-> TRUE, raises |-> "APIError"],
   [use_ai_summary |-> TRUE, raises |-> "IndexError"],
   [use_ai_summary |-> TRUE, raises |-> "none", text |-> "The group agreed on R5."]}

\* except anthropic.APIError written for except Exception
SummarizerCaughtApiOnly(exc) == exc = "APIError"

\* _summarize_topic: except Exception as e
SummarizerCaught(exc) == exc \in {"ImportError", "APIError", "IndexError"}

\* what propagates out of _summarize_topic
Raised(exc) == <<"raised", exc>>

\* _summarize_topic of a scraper with summarizer s
SummarizeTopicWith(s, topic, msgs) ==
  IF ~s.use_ai_summary \/ msgs = <<>> THEN FallbackSummary(msgs)
  ELSE IF s.raises = "none" THEN <<s.text>>
  ELSE IF SummarizerCaught(s.raises) THEN FallbackSummary(msgs)
  ELSE Raised(s.raises)

\* self._summarize_topic(topic, topic_messages, source.stream_name)
SummarizeTopic(topic, msgs) == SummarizeTopicWith(summarizer, topic, msgs)

\* recent_count = sum(1 for m in topic_messages if timestamp >= recent_ts)
RECURSIVE CountRecent(_, _, _)
CountRecent(msgs, i, recent) ==
  IF i > Len(msgs) THEN 0
  ELSE (IF IsRecent(msgs[i], recent) THEN 1 ELSE 0) + CountRecent(msgs, i + 1, recent)

\* for msg in topic_messages: all_participants.add(sender)
RECURSIVE AddParticipants(_, _, _)
AddParticipants(msgs, i, all_participants) ==
  IF i > Len(msgs) THEN all_participants
  ELSE AddParticipants(msgs, i + 1, all_participants \cup {Sender(msgs[i])})

StartTotals ==
  [topic_summaries |-> <<>>, all_participants |-> {}, total_messages |-> 0,
   recent_messages |-> 0]

\* total_messages += 1 written for total_messages += len(topic_messages)
AddTopicCountingTopics(acc, topic, topic_messages, recent) ==
  LET recent_count == CountRecent(topic_messages, 1, recent)
  IN [topic_summaries |->
        Append(acc.topic_summaries,
               [topic |-> topic,
                summary |-> SummarizeTopic(topic, topic_messages),
                message_count |-> Len(topic_messages),
                recent_count |-> recent_count]),
      all_participants |-> AddParticipants(topic_messages, 1, acc.all_participants),
      total_messages |-> acc.total_messages + 1,
      recent_messages |-> acc.recent_messages + recent_count]

\* the body of "for topic, topic_messages in recent_topics.items()"
AddTopic(acc, topic, topic_messages, recent) ==
  LET recent_count == CountRecent(topic_messages, 1, recent)
  IN [topic_summaries |->
        Append(acc.topic_summaries,
               [topic |-> topic,
                summary |-> SummarizeTopic(topic, topic_messages),
                message_count |-> Len(topic_messages),
                recent_count |-> recent_count]),
      all_participants |-> AddParticipants(topic_messages, 1, acc.all_participants),
      total_messages |-> acc.total_messages + Len(topic_messages),
      recent_messages |-> acc.recent_messages + recent_count]

RECURSIVE TotalsFrom(_, _, _, _)
TotalsFrom(d, i, recent, acc) ==
  IF i > Len(d.keys) THEN acc
  ELSE TotalsFrom(d, i + 1, recent, AddTopic(acc, d.keys[i], d.vals[d.keys[i]], recent))

\* the sort key compared the other way round: ascending
SortsBeforeAscending(a, b) == a.recent_count < b.recent_count

\* key=recent_count, reverse=True: a goes before b when its key is larger
SortsBefore(a, b) == a.recent_count > b.recent_count

\* A stable sort: x goes after every entry it does not sort before.
RECURSIVE InsertSorted(_, _)
InsertSorted(sorted, x) ==
  IF sorted = <<>> THEN <<x>>
  ELSE IF SortsBefore(x, Head(sorted)) THEN <<x>> \o sorted
  ELSE <<Head(sorted)>> \o InsertSorted(Tail(sorted), x)

RECURSIVE SortFrom(_, _, _)
SortFrom(s, i, sorted) ==
  IF i > Len(s) THEN sorted ELSE SortFrom(s, i + 1, InsertSorted(sorted, s[i]))

\* topic_summaries.sort(key=lambda t: t["recent_count"], reverse=True)
SortByRecent(s) == SortFrom(s, 1, <<>>)

\* topic_summaries[:5]
TopOf(sorted) == SubSeq(sorted, 1, IF Len(sorted) < TopTopics THEN Len(sorted) ELSE TopTopics)

\* one entry "**<topic>** (<recent_count> new): <summary>" of the combined content
ContentPart(ts) == [topic |-> ts.topic, recent_count |-> ts.recent_count, summary |-> ts.summary]

\* recent_messages > 5 written for recent_messages >= 5
IsTrendingAbove(totals) == totals.recent_messages > TrendingThreshold

\* is_trending=recent_messages >= 5
IsTrending(totals) == totals.recent_messages >= TrendingThreshold

\* the metrics taken over the rendered topics only
ThreadContentOfTop(retained, recent) ==
  LET sorted == SortByRecent(TotalsFrom(retained, 1, recent, StartTotals).topic_summaries)
      top == TopOf(sorted)
      shown == [keys |-> [i \in 1..Len(top) |-> top[i].topic], vals |-> retained.vals]
      totals == TotalsFrom(shown, 1, recent, StartTotals)
  IN [topic |-> Len(retained.keys),
      message_count |-> totals.total_messages,
      participant_count |-> Cardinality(totals.all_participants),
      is_trending |-> IsTrending(totals),
      content |-> [i \in 1..Len(top) |-> ContentPart(top[i])],
      recent_message_count |-> totals.recent_messages]

\* the ZulipThreadContent that scrape_source returns for its retained topics
ThreadContent(retained, recent) ==
  LET totals == TotalsFrom(retained, 1, recent, StartTotals)
      top == TopOf(SortByRecent(totals.topic_summaries))
  IN [topic |-> Len(retained.keys),
      message_count |-> totals.total_messages,
      participant_count |-> Cardinality(totals.all_participants),
      is_trending |-> IsTrending(totals),
      content |-> [i \in 1..Len(top) |-> ContentPart(top[i])],
      recent_message_count |-> totals.recent_messages]

\* A JSON null where the API is expected to send a string. No topic is
\* named so.
JsonNull == "\\null"

\* _build_thread_url: topic.replace(" ", ".20") raises AttributeError when
\* the subject of the topic is None
BuildThreadUrlRaises(topic) == topic = JsonNull

\* the loop over recent_topics raises: nothing in scrape_source catches it
ScrapeSourceRaises ==
  /\ messages # <<>>
  /\ LET retained == FilterRecentTopics(GroupByTopic(messages), recent_ts)
     IN \E i \in 1..Len(retained.keys) : BuildThreadUrlRaises(retained.keys[i])

\* scrape_source from the return of _get_messages on, when it raises
AggregateRaises ==
  /\ pc = "fetched"
  /\ ScrapeSourceRaises
  /\ pc' = "raised"
  /\ topics' = GroupByTopic(messages)
  /\ recent_topics' = FilterRecentTopics(topics', recent_ts)
  /\ UNCHANGED exceptZulip
  /\ UNCHANGED <<summarizer, summary, lookback_days, recent_hours, since_ts, recent_ts, history,
                 messages, anchor, seen_oldest, batch, requests, request_failed,
                 content>>

\* scrape_source from the return of _get_messages on
Aggregate ==
  /\ pc = "fetched"
  /\ ~ScrapeSourceRaises
  /\ pc' = "done"
  /\ IF messages = <<>>
     THEN \* if not messages: return None
          /\ content' = None
          /\ UNCHANGED <<topics, recent_topics>>
     ELSE /\ topics' = GroupByTopic(messages)
          /\ recent_topics' = FilterRecentTopics(topics', recent_ts)
          /\ content' = IF recent_topics'.keys = <<>>
                        THEN None  \* if not recent_topics: return None
                        ELSE ThreadContent(recent_topics', recent_ts)
  /\ UNCHANGED exceptZulip
  /\ UNCHANGED <<summarizer, summary, lookback_days, recent_hours, since_ts, recent_ts, history,
                 messages, anchor, seen_oldest, batch, requests, request_failed>>

\* --------------------------------------- the remote of the aggregation runs

TopicName(t) == "topic " \o ToString(t)

SenderNames == <<"alice", "bob", "carol">>

\* the j-th recent message of topic t; the first lies on the edge of the
\* default recent window
RecentMessage(t, j, id) ==
  [id |-> id,
   timestamp |-> IF j = 1 THEN Now - RecentHours ELSE Now - 1,
   subject |-> TopicName(t),
   sender_full_name |-> SenderNames[((t + j) % Len(SenderNames)) + 1],
   content |-> "text " \o ToString(id)]

\* the message of topic t just older than the default recent window; its
\* sender is not given
OlderMessage(t, id) ==
  [id |-> id,
   timestamp |-> Now - RecentHours - 1,
   subject |-> TopicName(t),
   content |-> "text " \o ToString(id)]

RECURSIVE RecentRun(_, _, _, _)
RecentRun(rc, t, n, first_id) ==
  IF t > n THEN <<>>
  ELSE [j \in 1..rc[t] |-> RecentMessage(t, j, first_id + j - 1)]
         \o RecentRun(rc, t + 1, n, first_id + rc[t])

\* A stream, oldest first: one older message for each of the topics 1..older,
\* then rc[t] recent messages of each topic t.
History(rc, older) ==
  [t \in 1..older |-> OlderMessage(t, t)] \o RecentRun(rc, 1, NTopics, older + 1)

Configs ==
  {[lookback_days |-> LookbackDays, recent_hours |-> RecentHours],
   [lookback_days |-> 1, recent_hours |-> 2 * RecentHours]}

InitScrape ==
  \E cfg \in Configs, rc \in [1..NTopics -> 0..MaxRecent], older \in {0, MaxOlder} :
    /\ lookback_days = cfg.lookback_days
    /\ recent_hours = cfg.recent_hours
    /\ since_ts = Now - cfg.lookback_days * HoursPerDay
    /\ recent_ts = Now - cfg.recent_hours
    /\ history = History(rc, older)
    /\ messages = <<>>
    /\ anchor = Newest
    /\ seen_oldest = FALSE
    /\ batch = <<>>
    /\ requests = 0
    /\ pc = "get_messages"
    /\ topics = None
    /\ recent_topics = None
    /\ content = None
    /\ request_failed = FALSE
    /\ summarizer = NoSummarizer
    /\ summary = <<>>
  /\ ExtractIdle
    /\ ScrapeAllIdle
    /\ ConfluenceIdle
    /\ FormatterIdle

\* the first request (anchor "newest") is answered with the whole stream,
\* which is shorter than a page
FirstPage == requests = 0 /\ GetMessagesPage(history)

\* a later request is answered with nothing: the stream holds nothing older
NoOlderPage == requests > 0 /\ GetMessagesPage(<<>>)

\* a later request is answered with the page that ends at the anchor, the
\* anchor message included: the same page again
SamePageAgain == requests > 0 /\ GetMessagesPage(history)

NextScrape == FirstPage \/ NoOlderPage \/ SamePageAgain \/ GetMessagesFail \/ Aggregate

SpecScrape == InitScrape /\ [][NextScrape]_vars

\* ------------------------------------------------- the summarizing runs

\* the messages of a topic handed to _summarize_topic
TopicAlphabet ==
  {[id |-> 1, timestamp |-> Now - 1, subject |-> "ballot",
    sender_full_name |-> "alice", content |-> "When does the ballot close?"],
   [id |-> 2, timestamp |-> Now - 2, subject |-> "ballot",
    sender_full_name |-> "bob", content |-> "Friday."],
   [id |-> 3, timestamp |-> Now - 2, subject |-> "ballot", sender_full_name |-> "bob"],
   [id |-> 4, subject |-> "ballot", content |-> "see the wiki"]}

InitSummarize ==
  /\ ZulipIdle
  /\ messages \in UNION {[1..n -> TopicAlphabet] : n \in 0..MaxTopicInput}
  /\ pc = "summarize"
  /\ summarizer \in Summarizers
  /\ summary = <<>>
  /\ ExtractIdle
  /\ ScrapeAllIdle
  /\ ConfluenceIdle
  /\ FormatterIdle

\* summary = self._summarize_topic(topic, topic_messages, source.stream_name)
SummarizeCall ==
  /\ pc = "summarize"
  /\ summary' = SummarizeTopic(IF messages = <<>> THEN "" ELSE Subject(messages[1]), messages)
  /\ pc' = "summarized"
  /\ UNCHANGED exceptZulip
  /\ UNCHANGED <<summarizer, lookback_days, recent_hours, since_ts, recent_ts,
                 history, messages, anchor, seen_oldest, batch, requests,
                 topics, recent_topics, content, request_failed>>

NextSummarize == SummarizeCall

SpecSummarize == InitSummarize /\ [][NextSummarize]_vars

\* ------------------------------------------------ ZulipScraper.scrape_all

\* a channel with topic 1 active: an older message and MaxRecent recent ones
ActiveStream == History([t \in 1..NTopics |-> IF t = 1 THEN MaxRecent ELSE 0], 1)

\* a channel with nothing in the recent window
StaleStream == History([t \in 1..NTopics |-> 0], MaxOlder)

\* an active channel whose newest message has a null subject
MalformedStream ==
  [ActiveStream EXCEPT ![Len(ActiveStream)] = [@ EXCEPT !.subject = JsonNull]]

ChannelRemotes == {<<>>, StaleStream, ActiveStream, MalformedStream}

ZulipSource(i, remote) == [name |-> "Channel " \o ToString(i), remote |-> remote]

\* no except clause around self.scrape_source(source)
ScrapeAllCatchesNothing(exc) == FALSE

\* scrape_all: except Exception as e: logger.error(...)
ScrapeAllCatches(exc) == exc = "Exception"

\* source_name=source.name of the ZulipThreadContent
NamedContent(source, c) == [source_name |-> source.name] @@ c

\* content = self.scrape_source(source): the call, up to _get_messages
ScrapeSourceCall ==
  /\ z_pc = "scrape_all"
  /\ pc = "idle"
  /\ z_idx <= Len(z_sources)
  /\ history' = z_sources[z_idx].remote
  /\ messages' = <<>>
  /\ anchor' = Newest
  /\ seen_oldest' = FALSE
  /\ batch' = <<>>
  /\ requests' = 0
  /\ request_failed' = FALSE
  /\ topics' = None
  /\ recent_topics' = None
  /\ content' = None
  /\ pc' = "get_messages"
  /\ UNCHANGED <<summarizer, summary, lookback_days, recent_hours, since_ts, recent_ts>>
  /\ UNCHANGED <<avars, cvars, fvars, xvars>>

\* scrape_source returned or raised: the rest of the loop body of scrape_all
ScrapeSourceOver ==
  /\ z_pc = "scrape_all"
  /\ pc \in {"done", "raised"}
  /\ LET source == z_sources[z_idx]
         outcome == [raised |-> pc = "raised",
                     request_failed |-> request_failed,
                     kept |-> Len(messages),
                     content |-> IF pc = "raised" THEN None ELSE content]
     IN /\ z_outcomes' = Append(z_outcomes, outcome)
        /\ IF pc = "raised"
           THEN /\ z_results' = z_results
                /\ IF ScrapeAllCatches("Exception")
                   THEN z_idx' = z_idx + 1 /\ z_pc' = z_pc
                   ELSE z_idx' = z_idx /\ z_pc' = "raised"
           ELSE \* if content: results.append(content)
                /\ z_results' = IF content = None THEN z_results
                                 ELSE Append(z_results, NamedContent(source, content))
                /\ z_idx' = z_idx + 1
                /\ z_pc' = z_pc
  /\ pc' = "idle"
  /\ UNCHANGED z_sources
  /\ UNCHANGED <<cvars, fvars, xvars>>
  /\ UNCHANGED <<summarizer, summary, lookback_days, recent_hours, since_ts, recent_ts, history,
                 messages, anchor, seen_oldest, batch, requests, request_failed,
                 topics, recent_topics, content>>

\* return results
ZulipScrapeAllReturn ==
  /\ z_pc = "scrape_all"
  /\ pc = "idle"
  /\ z_idx > Len(z_sources)
  /\ z_pc' = "returned"
  /\ UNCHANGED <<z_sources, z_idx, z_results, z_outcomes>>
  /\ UNCHANGED <<zvars, cvars, fvars, xvars>>

InitScrapeAll ==
  /\ ZulipIdle
  /\ messages = <<>>
  /\ pc = "idle"
  /\ \E n \in 0..NChannels :
       \E remotes \in [1..n -> ChannelRemotes] :
         z_sources = [i \in 1..n |-> ZulipSource(i, remotes[i])]
  /\ z_idx = 1
  /\ z_results = <<>>
  /\ z_outcomes = <<>>
  /\ z_pc = "scrape_all"
  /\ summarizer = NoSummarizer
  /\ summary = <<>>
  /\ ExtractIdle
  /\ ConfluenceIdle
  /\ FormatterIdle

NextScrapeAll ==
  \/ ScrapeSourceCall
  \/ FirstPage
  \/ NoOlderPage
  \/ SamePageAgain
  \/ GetMessagesFail
  \/ Aggregate
  \/ AggregateRaises
  \/ ScrapeSourceOver
  \/ ZulipScrapeAllReturn

SpecScrapeAll == InitScrapeAll /\ [][NextScrapeAll]_vars

\* ------------------------------------------------- the grouping runs

\* the messages _group_by_topic is given: two topics, a topic named "", and
\* a message with no subject
GroupAlphabet ==
  {[id |-> 1, timestamp |-> Now - 1, subject |-> "ballot", sender_full_name |-> "alice"],
   [id |-> 2, timestamp |-> Now - 2, subject |-> "terminology", sender_full_name |-> "bob"],
   [id |-> 3, timestamp |-> Now - 3, subject |-> "", sender_full_name |-> "bob"],
   [id |-> 4, timestamp |-> Now - 4, sender_full_name |-> "carol"]}

InitGroup ==
  /\ ZulipIdle
  /\ messages \in UNION {[1..n -> GroupAlphabet] : n \in 0..MaxGroupInput}
  /\ pc = "group"
  /\ summarizer = NoSummarizer
  /\ summary = <<>>
  /\ ExtractIdle
  /\ ScrapeAllIdle
  /\ ConfluenceIdle
  /\ FormatterIdle

\* topics = self._group_by_topic(messages)
GroupMessages ==
  /\ pc = "group"
  /\ topics' = GroupByTopic(messages)
  /\ pc' = "grouped"
  /\ UNCHANGED exceptZulip
  /\ UNCHANGED <<summarizer, summary, lookback_days, recent_hours, since_ts, recent_ts, history,
                 messages, anchor, seen_oldest, batch, requests, recent_topics,
                 content, request_failed>>

NextGroup == GroupMessages

SpecGroup == InitGroup /\ [][NextGroup]_vars

\* ------------------------------------------------------ ConfluenceScraper

\* What one attempt of _fetch_page meets: the page; a page whose parsing
\* raises; a 3xx answer that requests does not follow (304, or no Location);
\* an error status; a 405 answered with the page, or with an error status, on
\* the second, plainer request; a network error (a requests.RequestException);
\* an exception that is no requests.RequestException.
Responses ==
  {"200", "200 unparsable", "304", "404", "405 then 200", "405 then 404",
   "network error", "unexpected"}

\* the status of the response that reaches raise_for_status, 0 when the
\* request raised before there was a response
StatusOf(resp) ==
  CASE resp \in {"200", "200 unparsable", "405 then 200"} -> 200
    [] resp = "304" -> 304
    [] resp \in {"404", "405 then 404"} -> 404
    [] OTHER -> 0

\* response.raise_for_status(): an HTTPError for the 4xx and 5xx statuses
RaisesForStatus(status) == status >= 400 /\ status < 600

\* _fetch_page: what the attempt raises, "none" when it returns the html.
\* The HTTPError of raise_for_status and the network errors are
\* RequestExceptions, which are wrapped into a ScraperError.
RaisedBy(resp) ==
  CASE resp = "unexpected" -> "Exception"
    [] resp = "network error" -> "ScraperError"
    [] RaisesForStatus(StatusOf(resp)) -> "ScraperError"
    [] OTHER -> "none"

\* stop_after_attempt(4)
StopRetryingLater(attempt) == attempt >= MaxAttempts + 1

\* stop=stop_after_attempt(3), reraise=True
StopRetrying(attempt) == attempt >= MaxAttempts

\* _parse_confluence_page and _extract_meeting_info on the html fetched
ParseRaises(resp) == resp = "200 unparsable"

\* only "except ScraperError" written in scrape_page
CaughtScraperErrorOnly(exc) == exc = "ScraperError"

\* scrape_page: except ScraperError ... except Exception: return None
Caught(exc) == exc \in {"ScraperError", "Exception"}

\* the ConfluencePageContent that scrape_page builds for a source
ContentOf(source) ==
  [source_name |-> source.name,
   work_group |-> source.work_group,
   url |-> source.url,
   title |-> "title of " \o source.url,
   content |-> "text of " \o source.url]

\* the for loop of scrape_all stopped at the first source that failed
AfterFailedStop(idx) == Len(c_sources) + 1

\* for source in sources: the loop goes on to the next source
AfterFailed(idx) == idx + 1

\* One attempt of _fetch_page for the source scrape_all is at, and what
\* follows from it in scrape_page and scrape_all.
FetchAttempt(resp) ==
  /\ c_pc = "scrape_all"
  /\ c_idx <= Len(c_sources)
  /\ LET attempt == c_attempt + 1
         exc == RaisedBy(resp)
         outcome == [attempts |-> attempt, last |-> resp]
     IN IF exc = "none"
        THEN \* _fetch_page returned
             /\ c_outcomes' = Append(c_outcomes, outcome)
             /\ c_attempt' = 0
             /\ IF ParseRaises(resp)
                THEN IF Caught("Exception")
                     THEN \* scrape_page returned None
                          /\ c_results' = c_results
                          /\ c_idx' = AfterFailed(c_idx)
                          /\ c_pc' = c_pc
                     ELSE /\ c_pc' = "raised"
                          /\ UNCHANGED <<c_results, c_idx>>
                ELSE \* if content: results.append(content)
                     /\ c_results' = Append(c_results, ContentOf(c_sources[c_idx]))
                     /\ c_idx' = c_idx + 1
                     /\ c_pc' = c_pc
        ELSE IF ~StopRetrying(attempt)
        THEN \* tenacity waits and calls _fetch_page again
             /\ c_attempt' = attempt
             /\ UNCHANGED <<c_outcomes, c_results, c_idx, c_pc>>
        ELSE \* the last exception is re-raised to scrape_page
             /\ c_outcomes' = Append(c_outcomes, outcome)
             /\ c_attempt' = 0
             /\ c_results' = c_results
             /\ IF Caught(exc)
                THEN c_idx' = AfterFailed(c_idx) /\ c_pc' = c_pc
                ELSE c_pc' = "raised" /\ c_idx' = c_idx
  /\ c_last' = resp
  /\ UNCHANGED c_sources
  /\ UNCHANGED exceptConfluence

Fetch == \E resp \in Responses : FetchAttempt(resp)

\* return results
ScrapeAllReturn ==
  /\ c_pc = "scrape_all"
  /\ c_idx > Len(c_sources)
  /\ c_pc' = "returned"
  /\ UNCHANGED <<c_sources, c_idx, c_attempt, c_last, c_results, c_outcomes>>
  /\ UNCHANGED exceptConfluence

WorkGroups == <<"Da Vinci", "CDS", "FHIR-I">>

ConfluenceSource(i) ==
  [name |-> "Page " \o ToString(i),
   work_group |-> WorkGroups[(i % Len(WorkGroups)) + 1],
   url |-> "https://confluence.hl7.org/page" \o ToString(i)]

InitConfluence ==
  /\ ZulipIdle
  /\ FormatterIdle
  /\ summarizer = NoSummarizer
  /\ summary = <<>>
  /\ ExtractIdle
  /\ ScrapeAllIdle
  /\ messages = <<>>
  /\ pc = "idle"
  /\ \E n \in 0..NSources : c_sources = [i \in 1..n |-> ConfluenceSource(i)]
  /\ c_idx = 1
  /\ c_attempt = 0
  /\ c_last = ""
  /\ c_results = <<>>
  /\ c_outcomes = <<>>
  /\ c_pc = "scrape_all"

NextConfluence == Fetch \/ ScrapeAllReturn

SpecConfluence == InitConfluence /\ [][NextConfluence]_vars

\* ---------------------------------------------------- DigestFormatter: text

\* A text is a sequence of blocks, each a run of n characters of one kind:
\*   "word"   n letters                   "space"  n whitespace characters
\*   "dot"    a full stop                 "date"   an ISO date, dddd-dd-dd
\*   "ai"     a marker **Mon DD**:        "task"   a date written 15 Jan 2025
\*   "noise"  the task-table header of a wiki page, as one phrase
\*   "head", "tail"  that header split at "Due date": a head, one space and
\*            a tail read as the header again
\*   "removed" the text [Task list removed]
\*   "index"  the sentence _summarize_index_page writes
\*   "frag"   what is left of a block cut by a slice
\* Words are never 3 letters long, so no date block and word read as a task.
Word(n) == [k |-> "word", n |-> n]
Space(n) == [k |-> "space", n |-> n]
Dot == [k |-> "dot", n |-> 1]
IsoDate(day, valid) == [k |-> "date", n |-> 10, day |-> day, valid |-> valid]
AiMarker == [k |-> "ai", n |-> 11]
TaskDate == [k |-> "task", n |-> 11]
Noise == [k |-> "noise", n |-> 60]
NoiseHead == [k |-> "head", n |-> 32]
NoiseTail == [k |-> "tail", n |-> 27]
TaskListRemoved == [k |-> "removed", n |-> 19]
Frag(n) == [k |-> "frag", n |-> n]

\* len(content)
RECURSIVE TextLen(_)
TextLen(t) == IF t = <<>> THEN 0 ELSE Head(t).n + TextLen(Tail(t))

\* the part of block b that a slice keeps when it keeps m of its characters
CutBlock(b, m) ==
  IF m >= b.n THEN b
  ELSE IF b.k \in {"word", "space"} THEN [b EXCEPT !.n = m]
  ELSE Frag(m)

\* content[:m]
RECURSIVE Slice(_, _)
Slice(t, m) ==
  IF t = <<>> \/ m <= 0 THEN <<>>
  ELSE <<CutBlock(Head(t), m)>> \o Slice(Tail(t), m - Head(t).n)

\* re.findall(r'\d{4}-\d{2}-\d{2}', t): the dates of the date blocks and the
\* dates that an index sentence quotes unformatted
RECURSIVE FindDates(_)
FindDates(t) ==
  IF t = <<>> THEN <<>>
  ELSE (CASE Head(t).k = "date" -> <<[day |-> Head(t).day, valid |-> Head(t).valid]>>
          [] Head(t).k = "index" -> SelectSeq(Head(t).shown, LAMBDA d : ~d.valid)
          [] OTHER -> <<>>)
       \o FindDates(Tail(t))

\* ------------------------------------------- DigestFormatter._clean_content

\* re.match(...) or len(re.findall(...)) >= 1: a marker anywhere in the text
IsAiSummary(text) == \E i \in 1..Len(text) : text[i].k = "ai"

\* len(re.findall(date_pattern, content[:500])) >= 3
LooksLikeIndex(text) == Len(FindDates(Slice(text, DateWindow))) >= IndexDates

\* sorted(set(dates), reverse=True): the dates are told apart by their day
RECURSIVE SortedDescending(_)
SortedDescending(ds) ==
  IF ds = {} THEN <<>>
  ELSE LET top == CHOOSE d \in ds : \A e \in ds : e.day <= d.day
       IN <<top>> \o SortedDescending(ds \ {top})

\* the characters of ', '.join(formatted_dates): 'Jan 15' for a date that
\* strptime parses, the ten characters as found for one it rejects
RECURSIVE JoinedLen(_)
JoinedLen(shown) ==
  IF shown = <<>> THEN 0
  ELSE (IF Head(shown).valid THEN 6 ELSE 10)
       + (IF Len(shown) > 1 THEN 2 ELSE 0) + JoinedLen(Tail(shown))

\* _summarize_index_page
SummarizeIndexPage(text) ==
  LET dates == FindDates(text)
      unique_dates == SortedDescending({dates[i] : i \in 1..Len(dates)})
      recent_dates == SubSeq(unique_dates, 1,
                             IF Len(unique_dates) < TopDates THEN Len(unique_dates)
                             ELSE TopDates)
      digits == IF Len(unique_dates) < 10 THEN 1 ELSE 2
  IN IF dates = <<>>
     THEN <<[k |-> "index", n |-> 71, many |-> FALSE, count |-> 0, shown |-> <<>>]>>
     ELSE IF Len(unique_dates) > TopDates
     THEN <<[k |-> "index", n |-> 28 + digits + 24 + JoinedLen(recent_dates) + 41,
             many |-> TRUE, count |-> Len(unique_dates), shown |-> recent_dates]>>
     ELSE <<[k |-> "index", n |-> 30 + JoinedLen(recent_dates) + 41,
             many |-> FALSE, count |-> 0, shown |-> recent_dates]>>

\* the header is read at i: as one phrase, or as head, one space and tail
NoiseAt(t, i) ==
  IF t[i].k = "noise" THEN 1
  ELSE IF /\ t[i].k = "head"
          /\ i + 2 <= Len(t)
          /\ t[i + 1] = Space(1)
          /\ t[i + 2].k = "tail"
  THEN 3
  ELSE 0

\* re.sub(r'Create Agenda\s*Tasks\s*...\s*Task appears on', '', cleaned):
\* one pass from the left over the text as it is
RECURSIVE RemoveNoiseFrom(_, _)
RemoveNoiseFrom(t, i) ==
  IF i > Len(t) THEN <<>>
  ELSE IF NoiseAt(t, i) > 0 THEN RemoveNoiseFrom(t, i + NoiseAt(t, i))
  ELSE <<t[i]>> \o RemoveNoiseFrom(t, i + 1)

RemoveNoise(t) == RemoveNoiseFrom(t, 1)

\* a block that holds a full stop, which [^.]* does not pass
HasStop(b) == b.k \in {"dot", "index"}

\* the blocks from i up to the next full stop or the end of the text
RunEnd(t, i) ==
  IF \E j \in i..Len(t) : HasStop(t[j])
  THEN (CHOOSE j \in i..Len(t) : HasStop(t[j]) /\ \A h \in i..(j - 1) : ~HasStop(t[h])) - 1
  ELSE Len(t)

\* re.sub(r'(\d{1,2}\s+\w{3}\s+\d{4}[^.]*){3,}', '[Task list removed]', cleaned):
\* where three task dates or more stand with no full stop between them, the
\* text from the first of them to the next full stop is replaced
RECURSIVE RemoveTaskListsFrom(_, _)
RemoveTaskListsFrom(t, i) ==
  IF i > Len(t) THEN <<>>
  ELSE IF HasStop(t[i]) THEN <<t[i]>> \o RemoveTaskListsFrom(t, i + 1)
  ELSE LET last == RunEnd(t, i)
           tasks == {j \in i..last : t[j].k = "task"}
       IN IF Cardinality(tasks) >= TaskListDates
          THEN LET first == CHOOSE j \in tasks : \A h \in tasks : j <= h
               IN SubSeq(t, i, first - 1) \o <<TaskListRemoved>>
                    \o RemoveTaskListsFrom(t, last + 1)
          ELSE SubSeq(t, i, last) \o RemoveTaskListsFrom(t, last + 1)

RemoveTaskLists(t) == RemoveTaskListsFrom(t, 1)

\* re.sub(r'\s+', ' ', cleaned): every run of whitespace becomes one space
RECURSIVE CollapseWhitespace(_)
CollapseWhitespace(t) ==
  IF t = <<>> THEN <<>>
  ELSE IF Head(t).k = "space"
  THEN IF Len(t) > 1 /\ t[2].k = "space"
       THEN CollapseWhitespace(Tail(t))
       ELSE <<Space(1)>> \o CollapseWhitespace(Tail(t))
  ELSE <<Head(t)>> \o CollapseWhitespace(Tail(t))

\* .strip()
Strip(t) ==
  LET a == IF t # <<>> /\ Head(t).k = "space" THEN Tail(t) ELSE t
  IN IF a # <<>> /\ a[Len(a)].k = "space" THEN SubSeq(a, 1, Len(a) - 1) ELSE a

NormalizeWhitespace(t) == Strip(CollapseWhitespace(t))

\* the characters before block i
RECURSIVE Offset(_, _)
Offset(t, i) == IF i <= 1 THEN 0 ELSE t[i - 1].n + Offset(t, i - 1)

\* cleaned[:500].rfind('. '): the index of the last full stop that a space
\* follows, -1 when there is none
RFindSentenceEnd(t) ==
  LET ends == {i \in 1..(Len(t) - 1) : t[i].k = "dot" /\ t[i + 1].k = "space"}
  IN IF ends = {} THEN -1
     ELSE Offset(t, CHOOSE i \in ends : \A j \in ends : j <= i)

\* the cut at the cap without the ellipsis
TruncateNoEllipsis(cleaned) ==
  IF TextLen(cleaned) > MaxCleaned
  THEN LET sentence_end == RFindSentenceEnd(Slice(cleaned, MaxCleaned))
       IN IF sentence_end > MinSentenceEnd
          THEN Slice(cleaned, sentence_end + 1)
          ELSE Slice(cleaned, MaxCleaned)
  ELSE cleaned

\* the cut at the sentence boundary taken one character further
TruncateKeepingSpace(cleaned) ==
  IF TextLen(cleaned) > MaxCleaned
  THEN LET sentence_end == RFindSentenceEnd(Slice(cleaned, MaxCleaned))
       IN IF sentence_end > MinSentenceEnd
          THEN Slice(cleaned, sentence_end + 2)
          ELSE Slice(cleaned, MaxCleaned) \o <<Dot, Dot, Dot>>
  ELSE cleaned

\* if len(cleaned) > 500: cut at a sentence boundary past 100, else at 500
Truncate(cleaned) ==
  IF TextLen(cleaned) > MaxCleaned
  THEN LET sentence_end == RFindSentenceEnd(Slice(cleaned, MaxCleaned))
       IN IF sentence_end > MinSentenceEnd
          THEN Slice(cleaned, sentence_end + 1)
          ELSE Slice(cleaned, MaxCleaned) \o <<Dot, Dot, Dot>>
  ELSE cleaned

\* the index page told before the generated summary
CleanContentIndexFirst(text) ==
  IF text = <<>> THEN <<>>
  ELSE IF LooksLikeIndex(text) THEN SummarizeIndexPage(text)
  ELSE IF IsAiSummary(text) THEN text
  ELSE Truncate(NormalizeWhitespace(RemoveTaskLists(RemoveNoise(text))))

\* _clean_content
CleanContent(text) ==
  IF text = <<>> THEN <<>>
  ELSE IF IsAiSummary(text) THEN text
  ELSE IF LooksLikeIndex(text) THEN SummarizeIndexPage(text)
  ELSE Truncate(NormalizeWhitespace(RemoveTaskLists(RemoveNoise(text))))

\* ---------------------------- DigestFormatter._summarize_confluence_content

\* A datetime is the hour it falls in, counted as the timestamps of the chat
\* are; an Optional[datetime] is None or At(hour).
At(hour) == [at |-> hour]

\* datetime.strptime(d, '%Y-%m-%d'), localized: midnight of that day
Midnight(day) == day * HoursPerDay

\* the day datetime.now(self.timezone) falls in
Today == Now \div HoursPerDay

\* max(parsed_dates) over the dates of the text that strptime parses
ExtractMostRecentDateFromContent(text) ==
  LET dates == FindDates(text)
      parsed_dates == {Midnight(dates[i].day) : i \in {j \in 1..Len(dates) : dates[j].valid}}
  IN IF parsed_dates = {} THEN None
     ELSE At(CHOOSE d \in parsed_dates : \A e \in parsed_dates : e <= d)

\* effective_date = content.last_modified, or the date found in the text
EffectiveDate(p) ==
  IF p.last_modified # None THEN p.last_modified
  ELSE ExtractMostRecentDateFromContent(p.content)

\* date > cutoff written for date >= cutoff
IsRecentDateStrict(date, reference_date) ==
  /\ date # None
  /\ date.at > reference_date - RecentDays * HoursPerDay

\* _is_recent: cutoff = reference_date - timedelta(days=7); date >= cutoff
IsRecentDate(date, reference_date) ==
  /\ date # None
  /\ date.at >= reference_date - RecentDays * HoursPerDay

\* delta.days of delta = now - date: whole days, rounded down
DeltaDays(date, now) == (now - date.at) \div HoursPerDay

\* the first two branches of the label left out
GetFreshnessLabelNoToday(date, now) ==
  LET days == DeltaDays(date, now)
  IN IF date = None THEN None
     ELSE IF days <= FreshDays THEN [tag |-> "fresh", label |-> "days ago", days |-> days]
     ELSE IF days <= AgingDays THEN [tag |-> "aging", label |-> "days ago", days |-> days]
     ELSE [tag |-> "stale", label |-> "date", day |-> date.at \div HoursPerDay]

\* _get_freshness_label: the tag is the coloured mark that opens the label
GetFreshnessLabel(date, now) ==
  LET days == DeltaDays(date, now)
  IN IF date = None THEN None
     ELSE IF days = 0 THEN [tag |-> "fresh", label |-> "today"]
     ELSE IF days = 1 THEN [tag |-> "fresh", label |-> "yesterday"]
     ELSE IF days <= FreshDays THEN [tag |-> "fresh", label |-> "days ago", days |-> days]
     ELSE IF days <= AgingDays THEN [tag |-> "aging", label |-> "days ago", days |-> days]
     ELSE [tag |-> "stale", label |-> "date", day |-> date.at \div HoursPerDay]

\* "No content preview available."
NoPreview == <<[k |-> "placeholder", n |-> 29]>>

\* trending whenever decisions were recorded
PageIsTrendingOnDecisions(is_recent, decisions) == decisions # <<>>

\* is_trending = is_recent and bool(content.decisions)
PageIsTrending(is_recent, decisions) == is_recent /\ decisions # <<>>

\* _summarize_confluence_content at time now. The summary is kept as its
\* parts: the freshness label, the cleaned text and the count of decisions
\* that the closing sentence gives (0 when there is no such sentence).
SummarizeConfluenceContent(p, now) ==
  LET cleaned == CleanContent(p.content)
      effective_date == EffectiveDate(p)
      is_recent == IsRecentDate(effective_date, now)
  IN [source_type |-> "confluence",
      source_name |-> p.source_name,
      work_group |-> p.work_group,
      url |-> p.url,
      summary |-> [freshness |-> GetFreshnessLabel(effective_date, now),
                   content |-> IF cleaned # <<>> THEN cleaned ELSE NoPreview,
                   decisions |-> IF p.decisions # <<>> /\ ~IsAiSummary(p.content)
                                 THEN Len(p.decisions) ELSE 0],
      is_trending |-> PageIsTrending(is_recent, p.decisions),
      has_updates |-> is_recent,
      last_activity |-> effective_date]

\* ---------------------------------------------------- the summarizing of pages

\* when content.last_modified is, in hours before now: on the edges of the
\* days of the label and of the recent window, and in the future
ModifiedAgo ==
  {-1, 0, 23, 24, 47, 48, 167, 168, 169, 191, 192, 719, 720, 743, 744}

\* the texts of the pages: without a date, with dates of today, of 6 and 7
\* days ago, of tomorrow, of next month, of a month ago and of long ago, with
\* a date that strptime rejects, and a generated summary
PageTexts ==
  {<<>>,
   <<Word(96)>>,
   <<Word(96), Space(1), IsoDate(Today, TRUE)>>,
   <<IsoDate(Today - 6, TRUE), Space(1), IsoDate(Today - 7, TRUE)>>,
   <<IsoDate(Today - 7, TRUE)>>,
   <<IsoDate(Today - 1, TRUE), Space(1), IsoDate(Today + 1, TRUE)>>,
   <<IsoDate(Today + 30, TRUE)>>,
   <<IsoDate(Today - 30, TRUE), Space(1), IsoDate(Today + 99, FALSE)>>,
   <<IsoDate(Today + 99, FALSE)>>,
   <<IsoDate(Today - 31, TRUE)>>,
   <<AiMarker, Space(1), Word(96)>>}

Decisions == {<<>>, <<"Approved the ballot">>, <<"Approved the ballot", "Adopted R5">>}

ConfluencePage(i, work_group, text, last_modified, decisions) ==
  [source_name |-> "Page " \o ToString(i),
   work_group |-> work_group,
   url |-> "https://confluence.hl7.org/page" \o ToString(i),
   content |-> text,
   last_modified |-> last_modified,
   decisions |-> decisions]

InitPage ==
  /\ ZulipIdle
  /\ messages = <<>>
  /\ pc = "idle"
  /\ summarizer = NoSummarizer
  /\ summary = <<>>
  /\ ExtractIdle
  /\ ScrapeAllIdle
  /\ ConfluenceIdle
  /\ raw = <<>>
  /\ cleaned_content = <<>>
  /\ cleaned_again = <<>>
  /\ \E text \in PageTexts, decisions \in Decisions,
        last_modified \in {None} \cup {At(Now - h) : h \in ModifiedAgo} :
       page = ConfluencePage(1, "FHIR-I", text, last_modified, decisions)
  /\ page_summary = None
  /\ confluence_content = <<>>
  /\ zulip_content = None
  /\ digest = None
  /\ topic_entries = <<>>
  /\ combined = <<>>
  /\ html = None
  /\ f_pc = "page"

\* self._summarize_confluence_content(content)
SummarizePage ==
  /\ f_pc = "page"
  /\ page_summary' = SummarizeConfluenceContent(page, Now)
  /\ f_pc' = "summarized"
  /\ UNCHANGED <<raw, cleaned_content, cleaned_again, page, confluence_content,
                 zulip_content, digest>>
  /\ UNCHANGED hvars
  /\ UNCHANGED exceptFormatter

NextPage == SummarizePage

SpecPage == InitPage /\ [][NextPage]_vars

\* ------------------------------------------------------ the cleaning runs

\* The blocks of the texts handed to _clean_content. The two words are 96 and
\* 450 letters long, so that texts reach the cap with and without a sentence
\* boundary past 100; day 3 is one that strptime rejects.
CleanAlphabet ==
  {Word(96), Word(450), Space(1), Space(600), Dot,
   IsoDate(1, TRUE), IsoDate(2, TRUE), IsoDate(3, FALSE),
   AiMarker, TaskDate, Noise, NoiseHead, NoiseTail}

InitClean ==
  /\ ZulipIdle
  /\ messages = <<>>
  /\ pc = "idle"
  /\ summarizer = NoSummarizer
  /\ summary = <<>>
  /\ ExtractIdle
  /\ ScrapeAllIdle
  /\ ConfluenceIdle
  /\ raw \in UNION {[1..n -> CleanAlphabet] : n \in 0..MaxBlocks}
  /\ cleaned_content = <<>>
  /\ cleaned_again = <<>>
  /\ page = None
  /\ page_summary = None
  /\ confluence_content = <<>>
  /\ zulip_content = None
  /\ digest = None
  /\ topic_entries = <<>>
  /\ combined = <<>>
  /\ html = None
  /\ f_pc = "raw"

\* cleaned_content = self._clean_content(content.content)
CleanOnce ==
  /\ f_pc = "raw"
  /\ cleaned_content' = CleanContent(raw)
  /\ f_pc' = "cleaned"
  /\ UNCHANGED <<raw, cleaned_again, page, page_summary, confluence_content,
                 zulip_content, digest>>
  /\ UNCHANGED hvars
  /\ UNCHANGED exceptFormatter

\* _clean_content applied to its own result
CleanAgain ==
  /\ f_pc = "cleaned"
  /\ cleaned_again' = CleanContent(cleaned_content)
  /\ f_pc' = "cleaned again"
  /\ UNCHANGED <<raw, cleaned_content, page, page_summary, confluence_content,
                 zulip_content, digest>>
  /\ UNCHANGED hvars
  /\ UNCHANGED exceptFormatter

NextClean == CleanOnce \/ CleanAgain

SpecClean == InitClean /\ [][NextClean]_vars

\* ------------------------------------------------- claims: _get_messages

OlderIn(b) == {i \in 1..Len(b) : Timestamp(b[i]) < since_ts}
FreshIn(b) == {i \in 1..Len(b) : Timestamp(b[i]) >= since_ts}

\* C1: _get_messages terminates after finitely many page requests whatever
\* the remote answers: every pass that is followed by another pass has added
\* at least one message and left fewer than MessageLimit accumulated, no more
\* than MessageLimit requests are ever made, and the loop is left.
C1_PagingTerminates ==
  /\ [][(pc = "get_messages" /\ pc' = "get_messages")
          => (Len(messages') > Len(messages) /\ Len(messages') < MessageLimit)]_vars
  /\ [](requests <= MessageLimit)
  /\ <>(pc = "fetched")

\* C1 witness: the remote answered two full pages of messages newer than
\* since, the second ending at the same id as the first, and the loop was left.
C1_StuckAnchorStopped ==
  /\ pc = "fetched"
  /\ requests = 2
  /\ Len(batch) = PageSize
  /\ OlderIn(batch) = {}
  /\ "id" \in DOMAIN Last(batch)
  /\ Last(batch).id = anchor
  /\ Len(messages) = 2 * PageSize

\* C2 (as claimed): the list accumulated by _get_messages never holds more
\* than MessageLimit messages.
C2_HardCap == Len(messages) <= MessageLimit

\* C2 (amended): the limit is tested after a page has been appended, so the
\* list never holds more than MessageLimit - 1 + PageSize messages, and no
\* page is requested once MessageLimit or more are accumulated.
C2_CapAfterPage ==
  /\ Len(messages) <= MessageLimit - 1 + PageSize
  /\ (pc = "get_messages" => Len(messages) < MessageLimit)

\* C2 witness: _get_messages returned more than MessageLimit messages.
C2_OverLimitReturned == pc = "fetched" /\ Len(messages) > MessageLimit

\* C3: every accumulated message has timestamp >= since; when the page last
\* received holds a message older than since, its messages with
\* timestamp >= since are the tail of the list, in page order, and no further
\* page is requested.
C3_WindowAndHalt ==
  /\ \A i \in 1..Len(messages) : Timestamp(messages[i]) >= since_ts
  /\ OlderIn(batch) # {} =>
       /\ pc # "get_messages"
       /\ LET fresh == FreshIn(batch)
              k == Cardinality(fresh)
          IN /\ Len(messages) >= k
             /\ \A i \in fresh :
                  messages[Len(messages) - k + Cardinality({j \in fresh : j <= i})]
                    = batch[i]

\* C3 witness: a second page held both older and newer messages; the
\* newer ones were kept and the loop was left.
C3_MixedPageKept ==
  /\ pc = "fetched"
  /\ requests = 2
  /\ OlderIn(batch) # {}
  /\ FreshIn(batch) # {}
  /\ Len(messages) > PageSize

\* ------------------------------------------------- claims: scrape_source

Range(s) == {s[i] : i \in 1..Len(s)}

\* the accumulated messages inside the recent window
RecentIdx == {i \in 1..Len(messages) : Timestamp(messages[i]) >= recent_ts}

\* the topic labels with at least one such message
RetainedLabels == {Subject(messages[i]) : i \in RecentIdx}

\* the accumulated messages of those topics
RetainedIdx == {i \in 1..Len(messages) : Subject(messages[i]) \in RetainedLabels}

\* C4: once scrape_source has returned, the retained topics are exactly the
\* topic labels with a message of timestamp >= recentSince, each once and with
\* all the accumulated messages of its label, and the outcome is none exactly
\* when there is no such message (in particular when nothing was accumulated).
C4_RecencyFilter ==
  pc = "done" =>
    LET labels == RetainedLabels
    IN /\ (content = None) <=> (labels = {})
       /\ messages # <<>> =>
            /\ Range(recent_topics.keys) = labels
            /\ Len(recent_topics.keys) = Cardinality(labels)
            /\ DOMAIN recent_topics.vals = labels
            /\ \A label \in labels :
                 recent_topics.vals[label]
                   = SelectSeq(messages, LAMBDA msg : Subject(msg) = label)

\* C4 witness: a content was returned while one topic was dropped and one
\* retained topic kept a message older than the recent window.
C4_DroppedAndKept ==
  /\ pc = "done"
  /\ content # None
  /\ \E i \in 1..Len(messages) : Subject(messages[i]) \notin RetainedLabels
  /\ \E i \in RetainedIdx : i \notin RecentIdx

\* C5: a returned chat content is trending exactly when its
\* recent_message_count is at least 5; with 4 it is not.
C5_TrendingIffFive ==
  content # None =>
    /\ content.is_trending <=> (content.recent_message_count >= TrendingThreshold)
    /\ content.recent_message_count = TrendingThreshold - 1 => ~content.is_trending

\* C5 witness: a content with exactly 5 recent messages, trending.
C5_FiveIsTrending ==
  /\ content # None
  /\ content.recent_message_count = TrendingThreshold
  /\ content.is_trending

\* C6: a returned chat content has recent_message_count <= message_count.
C6_RecentWithinTotal ==
  content # None => content.recent_message_count <= content.message_count

\* C6 witness: a content returned under a recent window wider than the
\* lookback window.
C6_WideRecentWindow ==
  /\ content # None
  /\ recent_hours > lookback_days * HoursPerDay
  /\ content.message_count > 0

\* C7: message_count counts the accumulated messages of all retained topics,
\* recent_message_count those of them inside the recent window, and
\* participant_count the distinct sender names of all messages of the retained
\* topics.
C7_MetricsOverRetained ==
  content # None =>
    LET retained == RetainedIdx
    IN /\ content.message_count = Cardinality(retained)
       /\ content.recent_message_count = Cardinality(RecentIdx)
       /\ content.participant_count
            = Cardinality({Sender(messages[i]) : i \in retained})

\* C7 witness: more topics retained than are rendered, and a sender counted
\* who wrote only outside the recent window.
C7_BeyondRendered ==
  /\ content # None
  /\ Cardinality(RetainedLabels) > TopTopics
  /\ Len(content.content) = TopTopics
  /\ content.message_count > content.recent_message_count
  /\ \E i \in RetainedIdx : \A j \in RecentIdx : Sender(messages[j]) # Sender(messages[i])

\* C8: the combined summary holds min(5, retained topics) entries, each a
\* different retained topic with its recent-message count, in non-increasing
\* order of that count, and no omitted topic has a larger count than a shown one.
C8_TopFiveByRecent ==
  content # None =>
    LET c == content.content
        shown == {c[i].topic : i \in 1..Len(c)}
        recent == RecentIdx
        labels == {Subject(messages[i]) : i \in recent}
        count == [label \in labels |->
                    Cardinality({i \in recent : Subject(messages[i]) = label})]
    IN /\ Len(c) <= TopTopics
       /\ Len(c) = IF Cardinality(labels) < TopTopics
                   THEN Cardinality(labels) ELSE TopTopics
       /\ Cardinality(shown) = Len(c)
       /\ \A i \in 1..Len(c) :
            /\ c[i].topic \in labels
            /\ c[i].recent_count = count[c[i].topic]
       /\ \A i \in 1..(Len(c) - 1) : c[i].recent_count >= c[i + 1].recent_count
       /\ \A label \in labels \ shown : count[label] <= c[Len(c)].recent_count

\* C8 witness: more than 5 topics retained, the first topic met is not the
\* first shown, and the first shown has a larger count than the last shown.
C8_SortedAndCut ==
  /\ content # None
  /\ Cardinality(RetainedLabels) > TopTopics
  /\ content.content[1].topic # recent_topics.keys[1]
  /\ content.content[1].recent_count > content.content[TopTopics].recent_count

\* ----------------------------------------------- claims: _group_by_topic

RECURSIVE SumOfSizes(_, _)
SumOfSizes(d, i) ==
  IF i > Len(d.keys) THEN 0 ELSE Len(d.vals[d.keys[i]]) + SumOfSizes(d, i + 1)

\* C9: _group_by_topic partitions its input: there is one group for each topic
\* label that occurs, none empty, the group of a label holds exactly the
\* messages of that label (as often and in the order they occur), and the
\* group sizes sum to the number of messages.
C9_GroupingPartitions ==
  pc = "grouped" =>
    LET labels == {Subject(messages[i]) : i \in 1..Len(messages)}
    IN /\ Range(topics.keys) = labels
       /\ Len(topics.keys) = Cardinality(labels)
       /\ DOMAIN topics.vals = labels
       /\ \A label \in labels :
            /\ topics.vals[label] # <<>>
            /\ topics.vals[label]
                 = SelectSeq(messages, LAMBDA msg : Subject(msg) = label)
       /\ SumOfSizes(topics, 1) = Len(messages)

\* C9 witness: an input with several topics, a topic of several messages and
\* a message with no subject was grouped.
C9_SeveralGroups ==
  /\ pc = "grouped"
  /\ Len(topics.keys) >= 3
  /\ \E label \in DOMAIN topics.vals : Len(topics.vals[label]) >= 2
  /\ \E i \in 1..Len(messages) : "subject" \notin DOMAIN messages[i]

\* -------------------------------------- claims: ConfluenceScraper.scrape_all

\* the sources whose fetch ended with the page and whose page was parsed
Succeeded(outcomes) ==
  {i \in 1..Len(outcomes) : outcomes[i].last \in {"200", "304", "405 then 200"}}

\* C10: scrape_all never raises; when it returns, every source has been
\* scraped, and the results are the contents of the sources that succeeded,
\* in source order, whatever happened to the other sources.
C10_ScrapeAllPartial ==
  /\ c_pc # "raised"
  /\ c_pc = "returned" =>
       LET ok == Succeeded(c_outcomes)
       IN /\ Len(c_outcomes) = Len(c_sources)
          /\ Len(c_results) = Cardinality(ok)
          /\ \A i \in ok :
               c_results[Cardinality({j \in ok : j <= i})] = ContentOf(c_sources[i])

\* C10 witness: scrape_all returned after a source that failed on all its
\* attempts, a source whose page could not be parsed and, after them, a source
\* that succeeded.
C10_MixedBatchReturned ==
  /\ c_pc = "returned"
  /\ \E i, j, k \in 1..Len(c_outcomes) :
       /\ i < k /\ j < k
       /\ c_outcomes[i].last = "404"
       /\ c_outcomes[j].last = "200 unparsable"
       /\ k \in Succeeded(c_outcomes)
  /\ c_results # <<>>

\* ------------------------------------ claims: ConfluenceScraper._fetch_page

\* the sources whose last attempt of _fetch_page raised
FetchFailed(outcomes) ==
  {i \in 1..Len(outcomes) : RaisedBy(outcomes[i].last) # "none"}

\* the sources for which c_results holds a content
InResults(i) == \E k \in 1..Len(c_results) : c_results[k] = ContentOf(c_sources[i])

\* a status outside 2xx
Non2xx(status) == status < 200 \/ status >= 300

\* C11 as stated, a failed attempt being one that met a network error or a
\* status outside 2xx: a fetch makes at most 3 attempts, goes on only after
\* failed attempts, and a source whose last attempt failed took 3 attempts and
\* has no content in the results.
C11_Non2xxIsFailure ==
  LET failed(resp) == resp = "network error" \/ Non2xx(StatusOf(resp))
  IN /\ c_attempt < MaxAttempts
     /\ c_attempt > 0 => failed(c_last)
     /\ \A i \in 1..Len(c_outcomes) :
          /\ c_outcomes[i].attempts \in 1..MaxAttempts
          /\ failed(c_outcomes[i].last) =>
               c_outcomes[i].attempts = MaxAttempts /\ ~InResults(i)

\* C11 (amended): a fetch makes at most 3 attempts per URL; another attempt
\* is made only after one that raised (a network error, a 4xx or 5xx status,
\* any other exception); a source whose third attempt raised has no content
\* in the results (scrape_page returned None), and scrape_all does not raise.
C11_BoundedRetry ==
  /\ c_attempt < MaxAttempts
  /\ c_attempt > 0 => RaisedBy(c_last) # "none"
  /\ c_pc # "raised"
  /\ \A i \in 1..Len(c_outcomes) :
       /\ c_outcomes[i].attempts \in 1..MaxAttempts
       /\ i \in FetchFailed(c_outcomes) =>
            c_outcomes[i].attempts = MaxAttempts /\ ~InResults(i)

\* C11 witness: one source was given up after three attempts ending in a 404
\* and has no content; another got its page on the third attempt.
C11_ThirdAttemptBothWays ==
  \E i, j \in 1..Len(c_outcomes) :
    /\ c_outcomes[i] = [attempts |-> MaxAttempts, last |-> "404"]
    /\ ~InResults(i)
    /\ c_outcomes[j] = [attempts |-> MaxAttempts, last |-> "200"]
    /\ InResults(j)

\* ----------------------------------------- claims: ZulipScraper.scrape_all

\* the result built for channel i is in the results of scrape_all
ChannelInResults(i) ==
  \E k \in 1..Len(z_results) : z_results[k].source_name = z_sources[i].name

\* the channels for which scrape_source returned a content
WithContent(outcomes) == {i \in 1..Len(outcomes) : outcomes[i].content # None}

\* C12 as stated: a channel during whose scraping an exception occurred, a
\* failed page request included, is absent from the results, and scrape_all
\* returns normally with the results of the other channels.
C12_AnyExceptionAbsent ==
  /\ z_pc # "raised"
  /\ \A i \in 1..Len(z_outcomes) :
       (z_outcomes[i].raised \/ z_outcomes[i].request_failed) => ~ChannelInResults(i)

\* C12 (amended): scrape_all never raises; a channel whose scrape_source
\* raised is absent from the results; a channel whose page request failed
\* is absent when nothing had been accumulated before; the results are the
\* contents scrape_source returned, in channel order; and when scrape_all
\* returns every channel has been scraped.
C12_EscapedExceptionAbsent ==
  /\ z_pc # "raised"
  /\ LET ok == WithContent(z_outcomes)
     IN /\ Len(z_results) = Cardinality(ok)
        /\ \A i \in 1..Len(z_outcomes) :
             /\ z_outcomes[i].raised => i \notin ok
             /\ (z_outcomes[i].request_failed /\ z_outcomes[i].kept = 0) => i \notin ok
             /\ i \in ok =>
                  z_results[Cardinality({j \in ok : j <= i})]
                    = NamedContent(z_sources[i], z_outcomes[i].content)
  /\ z_pc = "returned" => Len(z_outcomes) = Len(z_sources)

\* C12 witness: scrape_all returned after a channel whose scrape_source
\* raised, a channel whose first page request failed and a channel whose
\* later page request failed, this last one being in the results.
C12_PartialChannelReturned ==
  /\ z_pc = "returned"
  /\ \E i, j, k \in 1..Len(z_outcomes) :
       /\ z_outcomes[i].raised /\ ~ChannelInResults(i)
       /\ z_outcomes[j].request_failed /\ z_outcomes[j].kept = 0
       /\ ~ChannelInResults(j)
       /\ z_outcomes[k].request_failed /\ z_outcomes[k].kept > 0
       /\ ChannelInResults(k)

\* ------------------------------------------------ claims: _summarize_topic

\* C13: _summarize_topic raises nothing and returns a summary; when the
\* summarizer is absent or raises, whatever it raises, the summary is the
\* fallback summary of the same messages.
C13_SummarizerFailureFallsBack ==
  pc = "summarized" =>
    /\ summary # <<>>
    /\ summary[1] # "raised"
    /\ (~summarizer.use_ai_summary \/ summarizer.raises # "none")
         => summary = FallbackSummary(messages)
    /\ (summarizer.use_ai_summary /\ summarizer.raises = "none" /\ messages # <<>>)
         => summary = <<summarizer.text>>

\* C13 witness: the import of the client failed for a topic of several
\* messages and the preview of the earliest one came back.
C13_ImportFailedFallback ==
  /\ pc = "summarized"
  /\ summarizer.use_ai_summary
  /\ summarizer.raises = "ImportError"
  /\ Len(messages) > 1
  /\ summary = <<"Discussion started", "Friday.">>

\* --------------------------------------------------- claims: _clean_content

\* C19: a text that _is_ai_summary accepts comes out of _clean_content as it
\* went in, whatever its length, its dates, its noise and its whitespace.
C19_AiSummaryUnchanged ==
  (f_pc # "raw" /\ IsAiSummary(raw)) => cleaned_content = raw

\* C19 witness: a generated summary longer than the cap, with whitespace to
\* collapse, came out unchanged.
C19_LongSummaryKept ==
  /\ f_pc = "cleaned"
  /\ IsAiSummary(raw)
  /\ TextLen(raw) > MaxCleaned
  /\ \E i \in 1..Len(raw) : raw[i] = Space(600)
  /\ cleaned_content = raw

\* C20 as stated: for every text, cleaning the cleaned text changes nothing.
C20_Idempotent ==
  f_pc = "cleaned again" => cleaned_again = cleaned_content

\* a cleaned text that the next pass reads as something else: not a generated
\* summary, and an index page (3 dates in its first 500 characters) or a text
\* holding the task-table header
Reclassified(text) ==
  /\ ~IsAiSummary(text)
  /\ \/ LooksLikeIndex(text)
     \/ \E i \in 1..Len(text) : NoiseAt(text, i) > 0

\* C20 (amended): cleaning the cleaned text changes nothing unless the
\* cleaned text is re-classified; and the cleaned text of anything but a
\* generated summary is at most 503 characters long (the cap and "...").
C20_IdempotentUnlessReclassified ==
  /\ (f_pc = "cleaned again" /\ ~Reclassified(cleaned_content))
       => cleaned_again = cleaned_content
  /\ (f_pc # "raw" /\ ~IsAiSummary(raw)) => TextLen(cleaned_content) <= MaxCleaned + 3

\* C20 witness: a text over the cap was cut at a sentence boundary, another
\* pass was made and left it as it was.
C20_CutTextCleanedAgain ==
  /\ f_pc = "cleaned again"
  /\ TextLen(raw) > MaxCleaned
  /\ ~IsAiSummary(raw)
  /\ TextLen(cleaned_content) \in (MinSentenceEnd + 1)..MaxCleaned
  /\ cleaned_content[Len(cleaned_content)] = Dot
  /\ cleaned_again = cleaned_content

\* ------------------------------------- claims: the cut of _clean_content

\* the text before the cut: noise and task lists removed, whitespace
\* collapsed and stripped
BeforeCut(text) == NormalizeWhitespace(RemoveTaskLists(RemoveNoise(text)))

\* the full stops of t that a space follows, both within the first 500
\* characters, and past offset 100
SentenceEnds(t) ==
  {i \in 1..(Len(t) - 1) :
     /\ t[i].k = "dot" /\ t[i + 1].k = "space"
     /\ Offset(t, i) + 2 <= MaxCleaned}

\* result is t cut after the last full stop of its first 500 characters that
\* a space follows, that full stop lying past offset 100
CutAtSentence(result, t) ==
  \E i \in SentenceEnds(t) :
    /\ \A j \in SentenceEnds(t) : j <= i
    /\ Offset(t, i) > MinSentenceEnd
    /\ result = SubSeq(t, 1, i)

\* result is the first 500 characters of t and an ellipsis, t having no such
\* full stop past offset 100
CutAtCap(result, t) ==
  /\ \A i \in SentenceEnds(t) : Offset(t, i) <= MinSentenceEnd
  /\ result = Slice(t, MaxCleaned) \o <<Dot, Dot, Dot>>
  /\ TextLen(result) = MaxCleaned + 3

\* C21 as stated: a text that is not a generated summary and whose
\* whitespace-collapsed form is over 500 characters comes out cut at the
\* sentence boundary or at the cap with an ellipsis (the cut taken of the
\* collapsed text or of the text before the cut, whichever fits), and a
\* shorter one comes out uncut.
C21_CutOfCollapsedText ==
  (f_pc # "raw" /\ raw # <<>> /\ ~IsAiSummary(raw)) =>
    LET collapsed == NormalizeWhitespace(raw)
    IN IF TextLen(collapsed) > MaxCleaned
       THEN \/ CutAtSentence(cleaned_content, collapsed)
            \/ CutAtCap(cleaned_content, collapsed)
            \/ CutAtSentence(cleaned_content, BeforeCut(raw))
            \/ CutAtCap(cleaned_content, BeforeCut(raw))
       ELSE cleaned_content = BeforeCut(raw)

\* C21 (amended): for a text that is neither a generated summary nor an index
\* page, the cut is decided on the text as it stands after the removal of
\* noise and task lists and the collapse of whitespace: over 500 characters
\* it is cut at the sentence boundary or at the cap with an ellipsis, at most
\* 500 it comes out whole; the result is never over 503 characters.
C21_CutOfCleanedText ==
  (f_pc # "raw" /\ raw # <<>> /\ ~IsAiSummary(raw) /\ ~LooksLikeIndex(raw)) =>
    /\ IF TextLen(BeforeCut(raw)) > MaxCleaned
       THEN \/ CutAtSentence(cleaned_content, BeforeCut(raw))
            \/ CutAtCap(cleaned_content, BeforeCut(raw))
       ELSE cleaned_content = BeforeCut(raw)
    /\ TextLen(cleaned_content) <= MaxCleaned + 3

\* C21 witness: a text with no sentence boundary whose noise was removed and
\* which was still over the cap came out as 500 characters and an ellipsis.
C21_CutAtCapAfterNoise ==
  /\ f_pc = "cleaned"
  /\ ~IsAiSummary(raw) /\ ~LooksLikeIndex(raw)
  /\ TextLen(BeforeCut(raw)) < TextLen(NormalizeWhitespace(raw))
  /\ TextLen(BeforeCut(raw)) > MaxCleaned
  /\ CutAtCap(cleaned_content, BeforeCut(raw))

\* ------------------------------- claims: _summarize_confluence_content

\* C14: in the summary of a wiki page, is_trending holds exactly when
\* has_updates holds and the page has decisions; so trending implies fresh.
C14_TrendingImpliesUpdates ==
  f_pc = "summarized" =>
    /\ page_summary.is_trending => page_summary.has_updates
    /\ page_summary.is_trending <=> (page_summary.has_updates /\ page.decisions # <<>>)

\* C14 witness: a page with decisions modified just now was summarized as
\* trending, with updates.
C14_RecentDecisionsTrending ==
  /\ f_pc = "summarized"
  /\ page.decisions # <<>>
  /\ page.last_modified = At(Now - 0)
  /\ page_summary.has_updates
  /\ page_summary.is_trending

\* -------------------------------------------- claims: _get_freshness_label

\* whole days from the effective date of the page to now
DaysElapsed == (Now - page_summary.last_activity.at) \div HoursPerDay

\* the label the table of the claim gives for d days elapsed, d >= 0
LabelOfTable(d) ==
  CASE d = 0 -> [tag |-> "fresh", label |-> "today"]
    [] d = 1 -> [tag |-> "fresh", label |-> "yesterday"]
    [] d >= 2 /\ d <= 7 -> [tag |-> "fresh", label |-> "days ago", days |-> d]
    [] d >= 8 /\ d <= 30 -> [tag |-> "aging", label |-> "days ago", days |-> d]
    [] OTHER -> [tag |-> "stale", label |-> "date",
                 day |-> page_summary.last_activity.at \div HoursPerDay]

\* C17 as stated: the label of a dated page is the one the table gives for
\* the whole days elapsed, which are 0 or more; no other label is produced.
C17_LabelByTable ==
  (f_pc = "summarized" /\ page_summary.last_activity # None) =>
    /\ DaysElapsed >= 0
    /\ page_summary.summary.freshness = LabelOfTable(DaysElapsed)

\* C17 for the dates that are not in the future: the label is the one the
\* table gives; a page with no date has no label; and a date in the future
\* is labelled fresh, with its negative count of days.
C17_LabelOfPastDates ==
  f_pc = "summarized" =>
    IF page_summary.last_activity = None
    THEN page_summary.summary.freshness = None
    ELSE IF DaysElapsed >= 0
    THEN page_summary.summary.freshness = LabelOfTable(DaysElapsed)
    ELSE page_summary.summary.freshness
           = [tag |-> "fresh", label |-> "days ago", days |-> DaysElapsed]

\* C17 witness: a page modified 30 days and 23 hours ago was labelled aging,
\* 30 days ago.
C17_ThirtyDaysAging ==
  /\ f_pc = "summarized"
  /\ page.last_modified = At(Now - 743)
  /\ page_summary.summary.freshness = [tag |-> "aging", label |-> "days ago", days |-> 30]

\* ---------------------------------------------------------- claims: _is_recent

\* the effective activity date of the page as the claim gives it: None, or
\* last_modified, or midnight of the latest date of the text that is a date
ClaimedEffectiveDate ==
  IF page.last_modified # None THEN page.last_modified
  ELSE LET days == {page.content[i].day :
                      i \in {j \in 1..Len(page.content) :
                               page.content[j].k = "date" /\ page.content[j].valid}}
       IN IF days = {} THEN None
          ELSE At(HoursPerDay * (CHOOSE d \in days : \A e \in days : e <= d))

\* C18 as stated: has_updates holds exactly when the effective date exists
\* and lies within 7 days of now.
C18_UpdatesWithinSevenDays ==
  f_pc = "summarized" =>
    (page_summary.has_updates <=>
       /\ ClaimedEffectiveDate # None
       /\ ClaimedEffectiveDate.at >= Now - RecentDays * HoursPerDay
       /\ ClaimedEffectiveDate.at <= Now + RecentDays * HoursPerDay)

\* C18 without the bound on the side of the future: has_updates holds exactly
\* when the effective date exists and is not more than 7 days before now.
C18_UpdatesNotOlderThanSevenDays ==
  f_pc = "summarized" =>
    /\ page_summary.last_activity = ClaimedEffectiveDate
    /\ page_summary.has_updates <=>
         /\ ClaimedEffectiveDate # None
         /\ ClaimedEffectiveDate.at >= Now - RecentDays * HoursPerDay

\* C18 witness: a page with no last_modified whose text holds a date of 6
\* days ago and an older one has updates; one modified 7 days and an hour ago
\* would not.
C18_DateOfTextRecent ==
  /\ f_pc = "summarized"
  /\ page.last_modified = None
  /\ page_summary.last_activity = At(Midnight(Today - 6))
  /\ page_summary.has_updates

\* ------------------------------------------------------------- create_digest

\* pages and channels handed to create_digest
MaxPages == 3
MaxChannelContents == 2

\* the work groups of the pages, and the code points of their names, by
\* which Python orders strings
DigestWorkGroups == {"CDS", "FHIR-I", "cds"}

CodePoints(name) ==
  CASE name = "CDS" -> <<67, 68, 83>>
    [] name = "FHIR-I" -> <<70, 72, 73, 82, 45, 73>>
    [] name = "cds" -> <<99, 100, 115>>

\* a < b on tuples, and so on strings taken as their code points: the
\* first place where they differ decides, and a prefix is less
TupleLess(a, b) ==
  LET n == IF Len(a) < Len(b) THEN Len(a) ELSE Len(b)
      differ == {i \in 1..n : a[i] # b[i]}
  IN IF differ = {} THEN Len(a) < Len(b)
     ELSE LET i == CHOOSE i \in differ : \A j \in differ : i <= j
          IN a[i] < b[i]

\* a bool in a key: False < True
AsInt(b) == IF b THEN 1 ELSE 0

\* a key that leaves the work group out
ConfluenceKeyNoGroup(x) == <<AsInt(~x.has_updates)>>

\* key=lambda x: (not x.has_updates, x.work_group)
ConfluenceKey(x) == <<AsInt(~x.has_updates)>> \o CodePoints(x.work_group)

\* a key that leaves has_updates out
ZulipKeyNoUpdates(x) == <<AsInt(~x.is_trending)>>

\* key=lambda x: (not x.is_trending, not x.has_updates)
ZulipKey(x) == <<AsInt(~x.is_trending), AsInt(~x.has_updates)>>

\* list.sort(key=...), with keys the keys of the elements of s: ascending by
\* key and stable, so an element comes after those of a lesser key and those
\* of an equal key that stood before it
StableSort(s, keys) ==
  LET place(i) ==
        1 + Cardinality({j \in 1..Len(s) :
                           \/ TupleLess(keys[j], keys[i])
                           \/ keys[j] = keys[i] /\ j < i})
  IN [k \in 1..Len(s) |-> s[CHOOSE i \in 1..Len(s) : place(i) = k]]

\* a ZulipThreadContent as scrape_source builds it, or as a caller does
ZulipThreadContent(i, is_trending, message_count) ==
  [source_name |-> "Channel " \o ToString(i),
   work_group |-> "FHIR-I",
   url |-> "https://chat.fhir.org/#narrow/stream/" \o ToString(i),
   content |-> IF message_count = 0 THEN "" ELSE "**Topic** (new): Discussion started",
   message_count |-> message_count,
   participant_count |-> IF message_count = 0 THEN 0 ELSE 1,
   is_trending |-> is_trending,
   scrape_timestamp |-> At(Now)]

\* _summarize_zulip_content. The summary is kept as its parts: the header
\* with the counts, and the text.
SummarizeZulipContent(c) ==
  [source_type |-> "zulip",
   source_name |-> c.source_name,
   work_group |-> c.work_group,
   url |-> c.url,
   summary |-> [stats |-> <<c.source_name, c.message_count, c.participant_count>>,
                content |-> IF c.content # "" THEN c.content
                            ELSE "No significant activity in the lookback period."],
   is_trending |-> c.is_trending,
   has_updates |-> c.message_count > 0,
   last_activity |-> c.scrape_timestamp,
   participant_count |-> c.participant_count]

\* zulip_content: Optional[list[ZulipThreadContent]]
ListOf(contents) == [list |-> contents]

DigestSection(title, source_type, summaries) ==
  [title |-> title, source_type |-> source_type, summaries |-> summaries]

\* create_digest(confluence_content, zulip_content) at time now
CreateDigestOf(pages, channels, now) ==
  LET confluence_summaries ==
        [i \in 1..Len(pages) |-> SummarizeConfluenceContent(pages[i], now)]
      confluence_section ==
        DigestSection("Confluence Updates", "confluence",
                      StableSort(confluence_summaries,
                                 [i \in 1..Len(pages) |->
                                    ConfluenceKey(confluence_summaries[i])]))
  IN IF channels = None
     THEN [date |-> At(now), sections |-> <<confluence_section>>]
     ELSE LET zulip_summaries ==
                [i \in 1..Len(channels.list) |-> SummarizeZulipContent(channels.list[i])]
          IN [date |-> At(now),
              sections |-> <<confluence_section,
                             DigestSection("Zulip Discussions", "zulip",
                                           StableSort(zulip_summaries,
                                                      [i \in 1..Len(channels.list) |->
                                                         ZulipKey(zulip_summaries[i])]))>>]

\* when the pages handed to create_digest were modified, in hours before
\* now: inside and outside the recent window
DigestModifiedAgo == {24, 240}

\* the message counts of the channels handed to create_digest
DigestMessageCounts == {0, 3}

InitDigest ==
  /\ ZulipIdle
  /\ messages = <<>>
  /\ pc = "idle"
  /\ summarizer = NoSummarizer
  /\ summary = <<>>
  /\ ExtractIdle
  /\ ScrapeAllIdle
  /\ ConfluenceIdle
  /\ raw = <<>>
  /\ cleaned_content = <<>>
  /\ cleaned_again = <<>>
  /\ page = None
  /\ page_summary = None
  /\ \E n \in 0..MaxPages :
       \E f \in [1..n -> DigestWorkGroups \X DigestModifiedAgo] :
         confluence_content =
           [i \in 1..n |-> ConfluencePage(i, f[i][1], <<Word(96)>>,
                                          At(Now - f[i][2]), <<>>)]
  /\ \/ zulip_content = None
     \/ \E n \in 0..MaxChannelContents :
          \E f \in [1..n -> BOOLEAN \X DigestMessageCounts] :
            zulip_content =
              ListOf([i \in 1..n |-> ZulipThreadContent(i, f[i][1], f[i][2])])
  /\ digest = None
  /\ topic_entries = <<>>
  /\ combined = <<>>
  /\ html = None
  /\ f_pc = "digest"

\* formatter.create_digest(confluence_content, zulip_content)
CreateDigest ==
  /\ f_pc = "digest"
  /\ digest' = CreateDigestOf(confluence_content, zulip_content, Now)
  /\ f_pc' = "created"
  /\ UNCHANGED <<raw, cleaned_content, cleaned_again, page, page_summary,
                 confluence_content, zulip_content>>
  /\ UNCHANGED hvars
  /\ UNCHANGED exceptFormatter

NextDigest == CreateDigest

SpecDigest == InitDigest /\ [][NextDigest]_vars

\* --------------------------------------------------------- claims: create_digest

\* how often x stands in s
Occurrences(x, s) == Cardinality({i \in 1..Len(s) : s[i] = x})

\* the summaries of the wiki section of the digest
WikiSummaries == digest.sections[1].summaries

\* the summaries of the pages handed in, in the order of the pages
InputSummaries ==
  [i \in 1..Len(confluence_content) |->
     SummarizeConfluenceContent(confluence_content[i], Now)]

\* C15: in the wiki section, summaries with updates stand before those
\* without, those with equal has_updates stand in ascending order of work
\* group, and the section holds each summary of the pages handed in as often
\* as the pages give it.
C15_WikiSectionSorted ==
  f_pc = "created" =>
    /\ digest.sections[1].source_type = "confluence"
    /\ \A i, j \in 1..Len(WikiSummaries) :
         i < j =>
           /\ WikiSummaries[j].has_updates => WikiSummaries[i].has_updates
           /\ WikiSummaries[i].has_updates = WikiSummaries[j].has_updates =>
                ~TupleLess(CodePoints(WikiSummaries[j].work_group),
                           CodePoints(WikiSummaries[i].work_group))
    /\ Len(WikiSummaries) = Len(confluence_content)
    /\ \A x \in Range(WikiSummaries) \cup Range(InputSummaries) :
         Occurrences(x, WikiSummaries) = Occurrences(x, InputSummaries)

\* C15 witness: three pages handed in as cds with updates, FHIR-I without,
\* CDS with updates came out as CDS, cds, FHIR-I.
C15_ThreePagesReordered ==
  /\ f_pc = "created"
  /\ Len(confluence_content) = 3
  /\ confluence_content[1].work_group = "cds"
  /\ confluence_content[2].work_group = "FHIR-I"
  /\ confluence_content[3].work_group = "CDS"
  /\ WikiSummaries[1].work_group = "CDS" /\ WikiSummaries[1].has_updates
  /\ WikiSummaries[2].work_group = "cds" /\ WikiSummaries[2].has_updates
  /\ WikiSummaries[3].work_group = "FHIR-I" /\ ~WikiSummaries[3].has_updates

\* the summaries of the chat section of the digest
ChatSummaries == digest.sections[2].summaries

\* C16: a digest has a chat section exactly when a list of channels was
\* handed in; in it trending summaries stand before the others, and among
\* those with equal is_trending the ones with updates stand first.
C16_ChatSectionSorted ==
  f_pc = "created" =>
    /\ Len(digest.sections) = (IF zulip_content = None THEN 1 ELSE 2)
    /\ zulip_content # None =>
         /\ digest.sections[2].source_type = "zulip"
         /\ Len(ChatSummaries) = Len(zulip_content.list)
         /\ \A i, j \in 1..Len(ChatSummaries) :
              i < j =>
                /\ ChatSummaries[j].is_trending => ChatSummaries[i].is_trending
                /\ ChatSummaries[i].is_trending = ChatSummaries[j].is_trending =>
                     (ChatSummaries[j].has_updates => ChatSummaries[i].has_updates)

\* C16 witness: a quiet channel without messages handed in before a quiet
\* one with messages came out after it.
C16_QuietChannelsReordered ==
  /\ f_pc = "created"
  /\ zulip_content # None
  /\ Len(zulip_content.list) = 2
  /\ ~zulip_content.list[1].is_trending /\ zulip_content.list[1].message_count = 0
  /\ ~zulip_content.list[2].is_trending /\ zulip_content.list[2].message_count > 0
  /\ ChatSummaries[1].source_name = zulip_content.list[2].source_name
  /\ ChatSummaries[2].source_name = zulip_content.list[1].source_name

\* ------------------------------------------------------ DigestOrchestrator.run

\* the message counts of the channels that ZulipScraper.scrape_all returns: a
\* quiet channel and a trending one
ScrapedMessageCount(is_trending) == IF is_trending THEN 6 ELSE 3

\* every run hands a list of channels to create_digest
ZulipContentAlways(scraped_zulip) == ListOf(scraped_zulip)

\* scraped["zulip"] if scraped["zulip"] else None
ZulipContentOfRun(scraped_zulip) ==
  IF scraped_zulip # <<>> THEN ListOf(scraped_zulip) ELSE None

\* The state of a run after the scraping of scrape_sources: c_results and
\* z_results are the two lists of the dict it returns, [] for a platform that
\* is disabled; z_pc tells whether Zulip was disabled, was scraped, or
\* ZulipScraper() raised ValueError for want of ZULIP_EMAIL or ZULIP_API_KEY.
InitRun ==
  /\ ZulipIdle
  /\ messages = <<>>
  /\ pc = "idle"
  /\ summarizer = NoSummarizer
  /\ summary = <<>>
  /\ ExtractIdle
  /\ z_sources = <<>>
  /\ z_idx = 0
  /\ z_outcomes = <<>>
  /\ z_pc \in {"disabled", "returned", "raised"}
  /\ IF z_pc = "returned"
     THEN \E n \in 0..MaxChannelContents :
            \E f \in [1..n -> BOOLEAN] :
              z_results = [i \in 1..n |->
                             ZulipThreadContent(i, f[i], ScrapedMessageCount(f[i]))]
     ELSE z_results = <<>>
  /\ c_sources = <<>>
  /\ c_idx = 0
  /\ c_attempt = 0
  /\ c_last = ""
  /\ c_outcomes = <<>>
  /\ c_pc \in {"disabled", "returned"}
  /\ IF c_pc = "returned"
     THEN \E n \in 0..MaxPages :
            \E f \in [1..n -> DigestWorkGroups \X DigestModifiedAgo] :
              c_results = [i \in 1..n |->
                             ConfluencePage(i, f[i][1], <<Word(96)>>,
                                            At(Now - f[i][2]), <<>>)]
     ELSE c_results = <<>>
  /\ raw = <<>>
  /\ cleaned_content = <<>>
  /\ cleaned_again = <<>>
  /\ page = None
  /\ page_summary = None
  /\ confluence_content = <<>>
  /\ zulip_content = None
  /\ digest = None
  /\ topic_entries = <<>>
  /\ combined = <<>>
  /\ html = None
  /\ f_pc = "run"

\* run: digest = self.generate_digest(scraped["confluence"], scraped["zulip"]
\* if scraped["zulip"] else None)
GenerateDigest ==
  /\ f_pc = "run"
  /\ z_pc # "raised"
  /\ confluence_content' = c_results
  /\ zulip_content' = ZulipContentOfRun(z_results)
  /\ digest' = CreateDigestOf(c_results, ZulipContentOfRun(z_results), Now)
  /\ f_pc' = "generated"
  /\ UNCHANGED <<raw, cleaned_content, cleaned_again, page, page_summary>>
  /\ UNCHANGED hvars
  /\ UNCHANGED exceptFormatter

\* run: the ValueError of ZulipScraper() leaves scrape_sources and run
RunRaises ==
  /\ f_pc = "run"
  /\ z_pc = "raised"
  /\ f_pc' = "raised"
  /\ UNCHANGED <<raw, cleaned_content, cleaned_again, page, page_summary,
                 confluence_content, zulip_content, digest>>
  /\ UNCHANGED hvars
  /\ UNCHANGED exceptFormatter

NextRun == GenerateDigest \/ RunRaises

SpecRun == InitRun /\ [][NextRun]_vars

\* ------------------------------------------------------------------ claims: run

\* the source types of the sections of the digest, in order
SectionTypes == [i \in 1..Len(digest.sections) |-> digest.sections[i].source_type]

\* C22 as stated: a run that scraped nothing ends with a digest and no error,
\* and the digest of every run has a wiki section and a chat section.
C22_TwoSectionsAlways ==
  /\ (f_pc # "run" /\ c_results = <<>> /\ z_results = <<>>) =>
       (f_pc = "generated" /\ digest # None)
  /\ f_pc = "generated" => SectionTypes = <<"confluence", "zulip">>

\* C22, what holds: a run in which ZulipScraper could be built, or Zulip was
\* disabled, ends with a digest, also when it scraped nothing; the digest
\* has a wiki section, and after it a chat section exactly when at least
\* one channel was scraped.
C22_ChatSectionIfScraped ==
  /\ (f_pc # "run" /\ z_pc # "raised") => (f_pc = "generated" /\ digest # None)
  /\ f_pc = "generated" =>
       /\ SectionTypes = (IF z_results # <<>> THEN <<"confluence", "zulip">>
                          ELSE <<"confluence">>)
       /\ Len(digest.sections[1].summaries) = Len(c_results)
       /\ z_results # <<>> => Len(digest.sections[2].summaries) = Len(z_results)

\* C22 witness: Zulip was enabled and scraped, nothing came back from either
\* platform, and the digest was made, with an empty wiki section.
C22_EmptyRunDigest ==
  /\ f_pc = "generated"
  /\ c_pc = "returned" /\ c_results = <<>>
  /\ z_pc = "returned" /\ z_results = <<>>
  /\ digest # None
  /\ digest.sections[1].summaries = <<>>

\* ------------------------------------------------ DigestFormatter.format_html

\* pages and channels of the digests that are rendered
MaxHtmlPages == 2
MaxHtmlChannels == 3

\* the keys of the work_groups dict filled from summaries: their work groups,
\* each once, in the order in which they are first met
RECURSIVE WorkGroupsOf(_)
WorkGroupsOf(summaries) ==
  IF summaries = <<>> THEN <<>>
  ELSE LET before == WorkGroupsOf(SubSeq(summaries, 1, Len(summaries) - 1))
           work_group == summaries[Len(summaries)].work_group
       IN IF \E i \in 1..Len(before) : before[i] = work_group THEN before
          ELSE Append(before, work_group)

\* _format_summary_html: the article of a summary, with its class and badge
FormatSummaryHtml(s, is_recent) ==
  [k |-> "article",
   class |-> IF s.is_trending THEN "article article-trending"
             ELSE IF is_recent THEN "article article-recent"
             ELSE "article article-stale",
   trending_badge |-> s.is_trending,
   source_type |-> s.source_type,
   source_name |-> s.source_name,
   work_group |-> s.work_group,
   url |-> s.url]

\* for work_group, summaries in work_groups.items(): from key i on
RECURSIVE FormatGroupsFrom(_, _, _, _)
FormatGroupsFrom(summaries, keys, i, is_recent) ==
  IF i > Len(keys) THEN <<>>
  ELSE LET group == SelectSeq(summaries, LAMBDA s : s.work_group = keys[i])
       IN <<[k |-> "work-group-header", work_group |-> keys[i], recent |-> is_recent]>>
          \o [j \in 1..Len(group) |-> FormatSummaryHtml(group[j], is_recent)]
          \o FormatGroupsFrom(summaries, keys, i + 1, is_recent)

\* the summaries in the order of the section, each under a header of its own
FormatUngroupedHtml(summaries, is_recent) ==
  IF summaries = <<>> THEN <<>>
  ELSE FormatGroupsFrom(<<Head(summaries)>>, <<Head(summaries).work_group>>, 1, is_recent)
       \o FormatGroupsFrom(Tail(summaries),
                           [j \in 1..Len(Tail(summaries)) |-> Tail(summaries)[j].work_group],
                           1, is_recent)

\* the summaries of one subgroup regrouped by work group and rendered
FormatGroupsHtml(summaries, is_recent) ==
  FormatGroupsFrom(summaries, WorkGroupsOf(summaries), 1, is_recent)

\* _format_section_html: the parts of the HTML of a section, in order
FormatSectionHtml(section) ==
  LET recent_summaries == SelectSeq(section.summaries, LAMBDA s : s.has_updates)
      stale_summaries == SelectSeq(section.summaries, LAMBDA s : ~s.has_updates)
  IN <<[k |-> "category",
        section_title |-> IF section.source_type = "confluence"
                          THEN "Confluence Updates" ELSE "Zulip Discussions"]>>
     \o (IF section.summaries = <<>> THEN <<[k |-> "no-updates"]>>
         ELSE (IF recent_summaries # <<>>
               THEN <<[k |-> "section-header", recent |-> TRUE]>>
                    \o FormatGroupsHtml(recent_summaries, TRUE)
               ELSE <<>>)
              \o (IF stale_summaries # <<>>
                  THEN (IF recent_summaries # <<>> THEN <<[k |-> "hr"]>> ELSE <<>>)
                       \o <<[k |-> "section-header", recent |-> FALSE]>>
                       \o FormatGroupsHtml(stale_summaries, FALSE)
                  ELSE <<>>))
     \o <<[k |-> "end"]>>

\* sum(len(s.summaries) for s in digest.sections if s.source_type == t)
RECURSIVE TotalOfType(_, _)
TotalOfType(sections, t) ==
  IF sections = <<>> THEN 0
  ELSE (IF Head(sections).source_type = t THEN Len(Head(sections).summaries) ELSE 0)
       + TotalOfType(Tail(sections), t)

\* a count of the recent summaries taken over the wiki sections only
RECURSIVE RecentCountOfPages(_)
RecentCountOfPages(sections) ==
  IF sections = <<>> THEN 0
  ELSE (IF Head(sections).source_type = "confluence"
        THEN Len(SelectSeq(Head(sections).summaries, LAMBDA s : s.has_updates)) ELSE 0)
       + RecentCountOfPages(Tail(sections))

\* recent_count: sum(1 for section in digest.sections for summary in
\* section.summaries if summary.has_updates)
RECURSIVE RecentCount(_)
RecentCount(sections) ==
  IF sections = <<>> THEN 0
  ELSE Len(SelectSeq(Head(sections).summaries, LAMBDA s : s.has_updates))
       + RecentCount(Tail(sections))

\* format_html: the sentence of the stat box, the sections, the footer
FormatHtml(d) ==
  LET total_pages == TotalOfType(d.sections, "confluence")
      total_threads == TotalOfType(d.sections, "zulip")
      recent_count == RecentCount(d.sections)
  IN [stat_message |->
        IF recent_count > 0
        THEN [found |-> recent_count, across |-> total_pages]
        ELSE [monitored |-> total_pages],
      sections |-> [i \in 1..Len(d.sections) |-> FormatSectionHtml(d.sections[i])],
      footer |-> [pages |-> total_pages, channels |-> total_threads]]

\* the work groups of the channels that are rendered
HtmlWorkGroups == {"CDS", "FHIR-I"}

\* The state after create_digest has made the digest of some pages and,
\* when Zulip is on, of some channels with messages.
InitHtml ==
  /\ ZulipIdle
  /\ messages = <<>>
  /\ pc = "idle"
  /\ summarizer = NoSummarizer
  /\ summary = <<>>
  /\ ExtractIdle
  /\ ScrapeAllIdle
  /\ ConfluenceIdle
  /\ raw = <<>>
  /\ cleaned_content = <<>>
  /\ cleaned_again = <<>>
  /\ page = None
  /\ page_summary = None
  /\ \E n \in 0..MaxHtmlPages :
       \E f \in [1..n -> HtmlWorkGroups \X DigestModifiedAgo] :
         confluence_content =
           [i \in 1..n |-> ConfluencePage(i, f[i][1], <<Word(96)>>,
                                          At(Now - f[i][2]), <<>>)]
  /\ \/ zulip_content = None
     \/ \E n \in 1..MaxHtmlChannels :
          \E f \in [1..n -> BOOLEAN \X HtmlWorkGroups] :
            zulip_content =
              ListOf([i \in 1..n |->
                        [ZulipThreadContent(i, f[i][1], ScrapedMessageCount(f[i][1]))
                           EXCEPT !.work_group = f[i][2]]])
  /\ digest = CreateDigestOf(confluence_content, zulip_content, Now)
  /\ topic_entries = <<>>
  /\ combined = <<>>
  /\ html = None
  /\ f_pc = "created"

\* body_html = self.formatter.format_html(digest)
FormatDigestHtml ==
  /\ f_pc = "created"
  /\ html' = FormatHtml(digest)
  /\ f_pc' = "formatted"
  /\ UNCHANGED <<raw, cleaned_content, cleaned_again, page, page_summary,
                 confluence_content, zulip_content, digest, topic_entries, combined>>
  /\ UNCHANGED exceptFormatter

NextHtml == FormatDigestHtml

SpecHtml == InitHtml /\ [][NextHtml]_vars

\* -------------------------------------------------- claims: _format_section_html

\* where the articles stand in the parts h of a section
ArticlesIn(h) == {p \in 1..Len(h) : h[p].k = "article"}

\* where the nearest part of kind k before part p stands in h, 0 if none
PartBefore(h, p, k) ==
  LET before == {q \in 1..(p - 1) : h[q].k = k}
  IN IF before = {} THEN 0 ELSE CHOOSE q \in before : \A r \in before : r <= q

\* where the summary named name stands in the summaries ss of a section
PlaceOf(ss, name) == CHOOSE i \in 1..Len(ss) : ss[i].source_name = name

\* where the first summary of work group g with has_updates = u stands in ss
FirstOfGroup(ss, u, g) ==
  CHOOSE i \in 1..Len(ss) :
    /\ ss[i].has_updates = u /\ ss[i].work_group = g
    /\ \A j \in 1..(i - 1) : ~(ss[j].has_updates = u /\ ss[j].work_group = g)

\* the claim of C23 for the summaries ss of a section and its parts h
RenderedOnceGrouped(ss, h) ==
  /\ Cardinality(ArticlesIn(h)) = Len(ss)
  /\ \A i \in 1..Len(ss) :
       Cardinality({p \in ArticlesIn(h) : h[p].source_name = ss[i].source_name}) = 1
  /\ \A p \in ArticlesIn(h) :
       LET s == ss[PlaceOf(ss, h[p].source_name)]
           sh == PartBefore(h, p, "section-header")
           gh == PartBefore(h, p, "work-group-header")
       IN /\ sh > 0 /\ gh > sh
          /\ h[sh].recent = s.has_updates
          /\ h[gh].work_group = s.work_group
  /\ \A p, q \in ArticlesIn(h) :
       (p < q /\ PartBefore(h, p, "section-header") = PartBefore(h, q, "section-header")) =>
         LET s == ss[PlaceOf(ss, h[p].source_name)]
             t == ss[PlaceOf(ss, h[q].source_name)]
         IN IF s.work_group = t.work_group
            THEN /\ PartBefore(h, p, "work-group-header") = PartBefore(h, q, "work-group-header")
                 /\ PlaceOf(ss, s.source_name) < PlaceOf(ss, t.source_name)
            ELSE FirstOfGroup(ss, s.has_updates, s.work_group)
                   < FirstOfGroup(ss, t.has_updates, t.work_group)

\* C23: in the HTML of a section with summaries every summary is rendered
\* once, under the header of recent activity exactly when it has updates and
\* under that of older content otherwise; within each of the two the
\* summaries of a work group stand together under one header, the groups in
\* the order in which they are first met and the summaries of a group in the
\* order of the section.
C23_RenderedOnceGrouped ==
  f_pc = "formatted" =>
    \A n \in 1..Len(digest.sections) :
      IF digest.sections[n].summaries = <<>>
      THEN html.sections[n] = <<html.sections[n][1], [k |-> "no-updates"], [k |-> "end"]>>
      ELSE RenderedOnceGrouped(digest.sections[n].summaries, html.sections[n])

\* C23 witness: a chat section of a trending CDS channel, a trending FHIR-I
\* channel and a quiet CDS channel was rendered with the two CDS channels
\* together, before the FHIR-I one.
C23_ChannelsRegrouped ==
  /\ f_pc = "formatted"
  /\ Len(digest.sections) = 2
  /\ Len(digest.sections[2].summaries) = 3
  /\ digest.sections[2].summaries[1].work_group = "CDS"
  /\ digest.sections[2].summaries[2].work_group = "FHIR-I"
  /\ digest.sections[2].summaries[3].work_group = "CDS"
  /\ LET h == html.sections[2]
     IN /\ Len(h) = 8
        /\ h[4].source_name = digest.sections[2].summaries[1].source_name
        /\ h[5].source_name = digest.sections[2].summaries[3].source_name
        /\ h[7].source_name = digest.sections[2].summaries[2].source_name

\* ------------------------------------------------------- claims: the stat box

\* C30 as stated: the count said to be of pages with recent activity is not
\* above the count of monitored pages of the same sentence.
C30_RecentWithinPages ==
  (f_pc = "formatted" /\ "found" \in DOMAIN html.stat_message) =>
    html.stat_message.found <= html.stat_message.across

\* C30, what holds: the first count is that of the summaries with updates of
\* all sections, chat included, and the second that of the wiki summaries;
\* the first is within the second for a digest with no chat section, and
\* within the second plus the count of channels otherwise.
C30_RecentWithinPagesAndChannels ==
  (f_pc = "formatted" /\ "found" \in DOMAIN html.stat_message) =>
    /\ html.stat_message.across = Len(digest.sections[1].summaries)
    /\ html.stat_message.found <= html.stat_message.across + html.footer.channels
    /\ Len(digest.sections) = 1 => html.stat_message.found <= html.stat_message.across
    /\ html.stat_message.found =
         Cardinality({<<n, i>> \in (1..Len(digest.sections))
                                      \X (1..(MaxHtmlPages + MaxHtmlChannels)) :
                        /\ i <= Len(digest.sections[n].summaries)
                        /\ digest.sections[n].summaries[i].has_updates})

\* C30 witness: a digest of two pages, one of them recent, and no chat
\* section was rendered with 1 found across 2.
C30_OneOfTwoPages ==
  /\ f_pc = "formatted"
  /\ Len(digest.sections) = 1
  /\ html.stat_message = [found |-> 1, across |-> 2]

\* --------------------------- the combined content and _format_zulip_summary_html

\* A string is the sequence of its characters here. The characters of a
\* topic name that matter to the pattern, and the length of a name:
TopicChars == {"a", "*", "&", " "}
MaxTopicChars == 2

\* \s, and what str.strip() removes
Whitespace == {" ", "\n"}

\* \d
DigitChars == {"0", "1", "2", "3", "4", "5", "6", "7", "8", "9"}

\* str(n)
RECURSIVE Digits(_)
Digits(n) == IF n < 10 THEN <<ToString(n)>> ELSE Digits(n \div 10) \o <<ToString(n % 10)>>

\* t has the characters w from place i on
HasAt(t, i, w) ==
  /\ i >= 1 /\ i + Len(w) - 1 <= Len(t)
  /\ \A j \in 1..Len(w) : t[i + j - 1] = w[j]

\* the entry written with one asterisk on each side of the topic
EntryOfSingleStars(ts) ==
  <<"*">> \o ts.topic \o <<"*", " ", "(">> \o Digits(ts.recent_count)
    \o <<" ", "n", "e", "w", ")", ":", " ">> \o ts.summary

\* f"**{ts['topic']}** ({ts['recent_count']} new): {ts['summary']}"
EntryOf(ts) ==
  <<"*", "*">> \o ts.topic \o <<"*", "*", " ", "(">> \o Digits(ts.recent_count)
    \o <<" ", "n", "e", "w", ")", ":", " ">> \o ts.summary

\* "\n\n".join(parts)
RECURSIVE JoinBlank(_)
JoinBlank(parts) ==
  IF parts = <<>> THEN <<>>
  ELSE IF Len(parts) = 1 THEN parts[1]
  ELSE parts[1] \o <<"\n", "\n">> \o JoinBlank(Tail(parts))

\* content.split('\n\n')
RECURSIVE SplitBlankFrom(_, _, _)
SplitBlankFrom(t, i, part) ==
  IF i > Len(t) THEN <<part>>
  ELSE IF HasAt(t, i, <<"\n", "\n">>) THEN <<part>> \o SplitBlankFrom(t, i + 2, <<>>)
  ELSE SplitBlankFrom(t, i + 1, Append(part, t[i]))

SplitBlank(t) == SplitBlankFrom(t, 1, <<>>)

\* where the run of characters of S that starts at place i of t ends: the
\* first place from i on that is past t or holds a character outside S
RECURSIVE EndOfRunIn(_, _, _)
EndOfRunIn(t, i, S) ==
  IF i > Len(t) \/ t[i] \notin S THEN i ELSE EndOfRunIn(t, i + 1, S)

\* where the run of characters other than c that starts at place i of t ends
RECURSIVE EndOfRunUntil(_, _, _)
EndOfRunUntil(t, i, c) ==
  IF i > Len(t) \/ t[i] = c THEN i ELSE EndOfRunUntil(t, i + 1, c)

NoMatch == [matched |-> FALSE]

\* re.match(r'\*\*([^*]+)\*\*\s*\((\d+)\s+new(?:,\s*([^\)]+))?\):', topic)
MatchTopic(t) ==
  LET b == EndOfRunUntil(t, 3, "*")
      c == EndOfRunIn(t, b + 2, Whitespace)
      e == EndOfRunIn(t, c + 1, DigitChars)
      f == EndOfRunIn(t, e, Whitespace)
      g == f + 3
      h == EndOfRunUntil(t, g + 1, ")")
      w == EndOfRunIn(t, g + 1, Whitespace)
  IN IF ~(/\ HasAt(t, 1, <<"*", "*">>) /\ b > 3 /\ HasAt(t, b, <<"*", "*">>)
          /\ HasAt(t, c, <<"(">>) /\ e > c + 1
          /\ f > e /\ HasAt(t, f, <<"n", "e", "w">>))
     THEN NoMatch
     ELSE IF HasAt(t, g, <<")", ":">>)
     THEN [matched |-> TRUE, topic_name |-> SubSeq(t, 3, b - 1),
           msg_count |-> SubSeq(t, c + 1, e - 1), relative_time |-> <<>>, end |-> g + 2]
     ELSE IF HasAt(t, g, <<",">>) /\ h > g + 1 /\ HasAt(t, h, <<")", ":">>)
     THEN [matched |-> TRUE, topic_name |-> SubSeq(t, 3, b - 1),
           msg_count |-> SubSeq(t, c + 1, e - 1),
           relative_time |-> SubSeq(t, IF w < h THEN w ELSE h - 1, h - 1), end |-> h + 2]
     ELSE NoMatch

\* .replace("&", "&amp;").replace("<", "&lt;").replace(">", "&gt;")
EscapeHtml(t) ==
  [i \in 1..Len(t) |-> CASE t[i] = "&" -> "&amp;"
                         [] t[i] = "<" -> "&lt;"
                         [] t[i] = ">" -> "&gt;"
                         [] OTHER -> t[i]]

\* re.sub(r'\*\*([^*]+)\*\*', r'<strong>\1</strong>', t), from place i on
RECURSIVE BoldFrom(_, _)
BoldFrom(t, i) ==
  IF i > Len(t) THEN <<>>
  ELSE LET b == EndOfRunUntil(t, i + 2, "*")
       IN IF HasAt(t, i, <<"*", "*">>) /\ b > i + 2 /\ HasAt(t, b, <<"*", "*">>)
          THEN <<"<strong>">> \o SubSeq(t, i + 2, b - 1) \o <<"</strong>">> \o BoldFrom(t, b + 2)
          ELSE <<t[i]>> \o BoldFrom(t, i + 1)

\* .replace('\n', '<br>')
BreakLines(t) == [i \in 1..Len(t) |-> IF t[i] = "\n" THEN "<br>" ELSE t[i]]

\* str.strip()
RECURSIVE StripChars(_)
StripChars(t) ==
  IF t = <<>> THEN t
  ELSE IF Head(t) \in Whitespace THEN StripChars(Tail(t))
  ELSE IF t[Len(t)] \in Whitespace THEN StripChars(SubSeq(t, 1, Len(t) - 1))
  ELSE t

\* the part of the HTML made of one piece of the summary: nothing for a
\* blank piece, a collapsible block when the pattern matches, a paragraph
\* otherwise
FormatTopicHtml(topic) ==
  LET topic_match == MatchTopic(topic)
  IN IF StripChars(topic) = <<>> THEN <<>>
     ELSE IF topic_match.matched
     THEN <<[k |-> "details",
             topic_name |-> EscapeHtml(topic_match.topic_name),
             time_suffix |-> topic_match.relative_time,
             msg_count |-> topic_match.msg_count,
             detail_content |->
               BreakLines(BoldFrom(EscapeHtml(
                 StripChars(SubSeq(topic, topic_match.end, Len(topic)))), 1))]>>
     ELSE <<[k |-> "p", text |-> BoldFrom(EscapeHtml(topic), 1)]>>

RECURSIVE FormatTopicsFrom(_, _)
FormatTopicsFrom(lines, i) ==
  IF i > Len(lines) THEN <<>>
  ELSE FormatTopicHtml(lines[i]) \o FormatTopicsFrom(lines, i + 1)

\* the stats line of _summarize_zulip_content, the channel being named "c"
StatsHeader(message_count, participant_count) ==
  <<"*", "*", "c", "*", "*", " ", "(">> \o Digits(message_count) \o <<" ", "m", ",", " ">>
    \o Digits(participant_count) \o <<" ", "p", ")">>

\* the summary string of _summarize_zulip_content for the combined content
SummaryStringOf(message_count, participant_count, combined_content) ==
  JoinBlank(<<StatsHeader(message_count, participant_count),
              IF combined_content # <<>> THEN combined_content
              ELSE <<"N", "o", " ", "a", "c", "t", "i", "v", "i", "t", "y">>>>)

\* _format_zulip_summary_html: the header paragraph, the topics, the link
FormatZulipSummaryHtml(summary_string) ==
  LET lines == SplitBlank(summary_string)
  IN <<[k |-> "channel-header", text |-> BoldFrom(EscapeHtml(lines[1]), 1)]>>
     \o FormatTopicsFrom(lines, 2)
     \o <<[k |-> "view-channel"]>>

\* the summaries of the topics: of one line, of two paragraphs, with bold
\* text, of two lines
TopicSummaries ==
  {<<"a">>, <<"a", "\n", "\n", "b">>, <<"*", "*", "a", "*", "*">>, <<"a", "\n", "b">>}

\* the recent counts of the topics
RecentCounts == {0, 3, 12}

\* a topic whose entry follows the pattern
PlainTopic == [topic |-> <<"b">>, recent_count |-> 1, summary |-> <<"b">>]

\* The topics of a channel as scrape_source has summarized them: one topic
\* of any name, count and summary, alone or next to a plain one.
InitTopics ==
  /\ ZulipIdle
  /\ messages = <<>>
  /\ pc = "idle"
  /\ summarizer = NoSummarizer
  /\ summary = <<>>
  /\ ExtractIdle
  /\ ScrapeAllIdle
  /\ ConfluenceIdle
  /\ raw = <<>>
  /\ cleaned_content = <<>>
  /\ cleaned_again = <<>>
  /\ page = None
  /\ page_summary = None
  /\ confluence_content = <<>>
  /\ zulip_content = None
  /\ digest = None
  /\ \E name \in UNION {[1..n -> TopicChars] : n \in 0..MaxTopicChars},
        recent_count \in RecentCounts, text \in TopicSummaries :
       LET ts == [topic |-> name, recent_count |-> recent_count, summary |-> text]
       IN topic_entries \in {<<ts>>, <<ts, PlainTopic>>, <<PlainTopic, ts>>}
  /\ combined = <<>>
  /\ html = None
  /\ f_pc = "topics"

\* scrape_source: content_parts, combined_content
WriteCombined ==
  /\ f_pc = "topics"
  /\ combined' = JoinBlank([i \in 1..Len(topic_entries) |-> EntryOf(topic_entries[i])])
  /\ f_pc' = "combined"
  /\ UNCHANGED <<raw, cleaned_content, cleaned_again, page, page_summary,
                 confluence_content, zulip_content, digest, topic_entries, html>>
  /\ UNCHANGED exceptFormatter

\* _summarize_zulip_content and _format_zulip_summary_html on its summary
RenderZulipSummary ==
  /\ f_pc = "combined"
  /\ html' = FormatZulipSummaryHtml(SummaryStringOf(Len(topic_entries), 1, combined))
  /\ f_pc' = "rendered"
  /\ UNCHANGED <<raw, cleaned_content, cleaned_again, page, page_summary,
                 confluence_content, zulip_content, digest, topic_entries, combined>>
  /\ UNCHANGED exceptFormatter

NextTopics == WriteCombined \/ RenderZulipSummary

SpecTopics == InitTopics /\ [][NextTopics]_vars

\* ------------------------------------- claims: the round trip of the topics

\* the collapsible blocks of the rendered channel, in order
DetailsBlocks == SelectSeq(html, LAMBDA part : part.k = "details")

\* the fallback paragraphs of the rendered channel, in order
FallbackParagraphs == SelectSeq(html, LAMBDA part : part.k = "p")

\* block carries the name and the count of the topic ts
Carries(block, ts) ==
  /\ block.topic_name = EscapeHtml(ts.topic)
  /\ block.msg_count = Digits(ts.recent_count)

\* C24 as stated: every topic comes back as exactly one collapsible block
\* with its name and its count, whatever its name and its summary, so the
\* blocks are those of the topics, in order.
C24_RoundTrip ==
  f_pc = "rendered" =>
    /\ Len(DetailsBlocks) = Len(topic_entries)
    /\ \A i \in 1..Len(topic_entries) : Carries(DetailsBlocks[i], topic_entries[i])

\* a name that the pattern reads back: not empty, and without an asterisk
ReadableName(name) == name # <<>> /\ \A i \in 1..Len(name) : name[i] # "*"

\* the paragraphs of a summary after the first: what split('\n\n') cuts off
LaterParagraphs(text) == Len(SplitBlank(text)) - 1

\* C24, what holds: the topics whose name is not empty and holds no asterisk
\* come back as one block each, with name and count, in order; a topic of
\* another name comes back as a fallback paragraph and no block; and each
\* paragraph of a summary after its first is one more fallback paragraph.
C24_RoundTripOfReadableNames ==
  f_pc = "rendered" =>
    LET readable == SelectSeq(topic_entries, LAMBDA ts : ReadableName(ts.topic))
        others == SelectSeq(topic_entries, LAMBDA ts : ~ReadableName(ts.topic))
    IN /\ Len(DetailsBlocks) = Len(readable)
       /\ \A i \in 1..Len(readable) : Carries(DetailsBlocks[i], readable[i])
       /\ Len(FallbackParagraphs) >= Len(others)
       /\ (\A i \in 1..Len(topic_entries) : LaterParagraphs(topic_entries[i].summary) = 0)
            => Len(FallbackParagraphs) = Len(others)

\* C24 witness: a topic named "a&", with 12 recent messages, next to a plain
\* one, came back as a block named "a&amp;" with the count 12.
C24_EscapedNameReadBack ==
  /\ f_pc = "rendered"
  /\ Len(topic_entries) = 2
  /\ topic_entries[2].topic = <<"a", "&">>
  /\ topic_entries[2].recent_count = 12
  /\ Len(DetailsBlocks) = 2
  /\ DetailsBlocks[2].topic_name = <<"a", "&amp;">>
  /\ DetailsBlocks[2].msg_count = <<"1", "2">>

\* --------------------------------------------- the parsing of a fetched page

\* The content element of a fetched page is kept as the list of the elements
\* that find_all meets in it, none inside another: the name of the tag, its
\* text after get_text(strip=True) (text: which text it is, n: len(text)),
\* and for a link whether its text holds an ISO date and of which day. The
\* texts are words of letters: none starts or ends with a bullet, a space,
\* a newline or a "#".
Element(name, text, n) == [name |-> name, text |-> text, n |-> n, dated |-> FALSE, day |-> 0]
Link(text, dated, day) == [name |-> "a", text |-> text, n |-> 18, dated |-> dated, day |-> day]

\* the blocks of the text that _extract_text_content writes
Txt(text, n) == [k |-> "text", text |-> text, n |-> n]
Newlines(n) == [k |-> "nl", n |-> n]
HeaderMark == [k |-> "mark", n |-> 3]
Bullet == [k |-> "bullet", n |-> 2]

\* tag.decompose() for the tags of find_all(["script", "style", ...])
Decomposed(elem) ==
  elem.name \in {"script", "style", "nav", "header", "footer", "noscript"}

\* lines[-1].strip("• \n#"): the text that the line was made of
StrippedLine(line) == SelectSeq(line, LAMBDA b : b.k = "text")

\* for elem in element.find_all(["h1", ..., "p", "li", "td", "th", "div"]):
\* the lines after the elements of elems, lines being those before them
LinesOf(elems, lines) ==
  LET text(elem) == Txt(elem.text, elem.n)
      step(ls, elem) ==
        IF ~(elem.n > 0 /\ elem.n > 2) THEN ls
        ELSE IF elem.name \in {"h1", "h2", "h3", "h4", "h5", "h6"}
          THEN ls \o <<<<Newlines(1), HeaderMark, text(elem), Newlines(1)>>>>
        ELSE IF elem.name = "li" THEN ls \o <<<<Bullet, text(elem)>>>>
        ELSE IF elem.name \in {"td", "th"} THEN ls
        ELSE IF elem.name \in {"p", "div"}
          THEN IF ls = <<>> \/ <<text(elem)>> # StrippedLine(Last(ls))
               THEN ls \o <<<<text(elem)>>>>
               ELSE ls
        ELSE ls
      RECURSIVE walk(_, _)
      walk(i, ls) == IF i > Len(elems) THEN ls ELSE walk(i + 1, step(ls, elems[i]))
  IN walk(1, lines)

\* "\n".join(lines)
RECURSIVE JoinLines(_)
JoinLines(lines) ==
  IF lines = <<>> THEN <<>>
  ELSE IF Len(lines) = 1 THEN lines[1]
  ELSE lines[1] \o <<Newlines(1)>> \o JoinLines(Tail(lines))

\* the text with every run of newlines as one block
RECURSIVE NewlineRuns(_)
NewlineRuns(t) ==
  IF Len(t) < 2 THEN t
  ELSE IF t[1].k = "nl" /\ t[2].k = "nl"
    THEN NewlineRuns(<<Newlines(t[1].n + t[2].n)>> \o Tail(Tail(t)))
  ELSE <<t[1]>> \o NewlineRuns(Tail(t))

\* re.sub(r"\n{3,}", "\n\n", content)
CollapseNewlines(t) ==
  [i \in 1..Len(NewlineRuns(t)) |->
     LET b == NewlineRuns(t)[i]
     IN IF b.k = "nl" /\ b.n >= 3 THEN Newlines(2) ELSE b]

\* content.strip()
RECURSIVE StripNewlines(_)
StripNewlines(t) ==
  IF t = <<>> THEN t
  ELSE IF Head(t).k = "nl" THEN StripNewlines(Tail(t))
  ELSE IF Last(t).k = "nl" THEN StripNewlines(SubSeq(t, 1, Len(t) - 1))
  ELSE t

\* _extract_text_content(element)
ExtractTextContent(elems) ==
  LET kept == SelectSeq(elems, LAMBDA e : ~Decomposed(e))
  IN StripNewlines(CollapseNewlines(JoinLines(LinesOf(kept, <<>>))))

\* the ConfluencePageContent that scrape_page returns for the html fetched
ScrapedPage(elems) ==
  [source_name |-> "Page 1",
   work_group |-> "FHIR-I",
   url |-> "https://confluence.hl7.org/page1",
   content |-> ExtractTextContent(elems)]

\* the window of extractMeetingLinks, in days, and its cap
LinkLookbackDays == 7
MaxMeetingLinks == 3

\* a link list that is not capped
MeetingLinksUncapped(elems, now) ==
  LET links == SelectSeq(elems, LAMBDA e : e.name = "a" /\ e.dated)
      recent == SelectSeq(links, LAMBDA e :
                  Midnight(e.day) >= now - LinkLookbackDays * HoursPerDay)
  IN StableSort(recent, [i \in 1..Len(recent) |-> <<0 - recent[i].day>>])

\* extractMeetingLinks(html): the links whose text holds an ISO date, those
\* of the window only, the latest first, and the first 3 of them
ExtractMeetingLinks(elems, now) ==
  LET links == SelectSeq(elems, LAMBDA e : e.name = "a" /\ e.dated)
      recent == SelectSeq(links, LAMBDA e :
                  Midnight(e.day) >= now - LinkLookbackDays * HoursPerDay)
      sorted == StableSort(recent, [i \in 1..Len(recent) |-> <<0 - recent[i].day>>])
  IN SubSeq(sorted, 1, IF Len(sorted) < MaxMeetingLinks THEN Len(sorted)
                       ELSE MaxMeetingLinks)

\* isIndexPage(html): at least 2 links whose text holds an ISO date
IsIndexPage(elems) ==
  Len(SelectSeq(elems, LAMBDA e : e.name = "a" /\ e.dated)) >= 2

\* The pages fetched: up to MaxElements elements of text, or up to MaxLinks
\* links. The texts are of 2, 40, 7,000 and 16,000 characters; the links are
\* dated 8, 7, 5 and 2 days before today and today, or hold no date.
MaxElements == 3
MaxLinks == 4

ElementNames == {"h2", "p", "li", "td", "script"}

ElementTexts == {<<"ok", 2>>, <<"agenda", 40>>, <<"minutes", 7000>>, <<"transcript", 16000>>}

PageElements == {Element(name, t[1], t[2]) : name \in ElementNames, t \in ElementTexts}

LinkDays == {Today - 8, Today - 7, Today - 5, Today - 2, Today}

PageLinks ==
  {Link("2026 meeting " \o ToString(day), TRUE, day) : day \in LinkDays}
    \cup {Link("Meeting archive", FALSE, 0)}

SeqsUpTo(S, n) == UNION {[1..m -> S] : m \in 0..n}

TimeoutArgs == {<<>>, <<30>>, <<90>>}

InitExtract ==
  /\ ZulipIdle
  /\ messages = <<>>
  /\ pc = "idle"
  /\ summarizer = NoSummarizer
  /\ summary = <<>>
  /\ ScrapeAllIdle
  /\ ConfluenceIdle
  /\ raw = <<>>
  /\ cleaned_content = <<>>
  /\ cleaned_again = <<>>
  /\ page = None
  /\ page_summary = None
  /\ confluence_content = <<>>
  /\ zulip_content = None
  /\ digest = None
  /\ topic_entries = <<>>
  /\ combined = <<>>
  /\ html = None
  /\ f_pc = "fetched"
  /\ \E args \in TimeoutArgs : confluence_scraper = ConfluenceScraper(args)
  /\ fetched \in SeqsUpTo(PageElements, MaxElements) \cup SeqsUpTo(PageLinks, MaxLinks)
  /\ meeting_links = <<>>

\* scrape_page on the html fetched
ScrapePage ==
  /\ f_pc = "fetched"
  /\ page' = ScrapedPage(fetched)
  /\ f_pc' = "scraped"
  /\ UNCHANGED <<raw, cleaned_content, cleaned_again, page_summary, confluence_content,
                 zulip_content, digest>>
  /\ UNCHANGED hvars
  /\ UNCHANGED <<zvars, avars, cvars, xvars>>

\* step 2 of the pipeline on an index page
ExtractLinks ==
  /\ f_pc = "fetched"
  /\ IsIndexPage(fetched)
  /\ meeting_links' = ExtractMeetingLinks(fetched, Now)
  /\ f_pc' = "links"
  /\ UNCHANGED <<raw, cleaned_content, cleaned_again, page, page_summary,
                 confluence_content, zulip_content, digest>>
  /\ UNCHANGED hvars
  /\ UNCHANGED <<zvars, avars, cvars, fetched, confluence_scraper>>

NextExtract == ScrapePage \/ ExtractLinks

SpecExtract == InitExtract /\ [][NextExtract]_vars

\* ------------------------------------------- claims: the parsing of a page

\* the links of the page that extractMeetingLinks may return: those whose
\* text holds a date that is not before now - 7 days
InWindowLinks(elems) ==
  SelectSeq(elems, LAMBDA e : /\ e.name = "a" /\ e.dated
                              /\ Midnight(e.day) >= Now - LinkLookbackDays * HoursPerDay)

\* how many times entry e stands in list s
CountOf(s, e) == Cardinality({i \in 1..Len(s) : s[i] = e})

C26_ContentWithinCap ==
  f_pc = "scraped" => TextLen(page.content) <= 15000

\* C26, its case: a page of one paragraph of 16,000 characters, scraped
C26_LongParagraphKept ==
  /\ f_pc = "scraped"
  /\ fetched = <<Element("p", "transcript", 16000)>>
  /\ page.content = <<Txt("transcript", 16000)>>

\* C27: a ConfluenceScraper constructed without a timeout argument has a
\* request timeout of 30 seconds.
C27_DefaultTimeoutThirty ==
  confluence_scraper.args = <<>> => confluence_scraper.timeout = 30

\* C27, its case: the scraper constructed without an argument
C27_ConstructedWithoutArgument ==
  /\ confluence_scraper.args = <<>>
  /\ confluence_scraper.timeout = 60

\* ------------------------------- claims: the label and has_updates together

\* C28: whenever the freshness label of a wiki summary is tagged fresh, its
\* has_updates is true.
C28_FreshMeansUpdates ==
  (/\ f_pc = "summarized"
   /\ page_summary.summary.freshness # None
   /\ page_summary.summary.freshness.tag = "fresh") => page_summary.has_updates

\* C28 the other way round, and for the labels under 7 days: a summary with
\* updates is tagged fresh, and a summary tagged fresh for today, yesterday
\* or fewer than 7 days ago has updates.
C28_UpdatesMeanFresh ==
  f_pc = "summarized" =>
    /\ page_summary.has_updates =>
         /\ page_summary.summary.freshness # None
         /\ page_summary.summary.freshness.tag = "fresh"
    /\ (/\ page_summary.summary.freshness # None
        /\ page_summary.summary.freshness.tag = "fresh"
        /\ DaysElapsed < 7) => page_summary.has_updates

\* C28, its case: a page modified 7 days and an hour ago is labelled fresh,
\* 7 days ago, and has no updates
C28_SevenDaysFreshNoUpdates ==
  /\ f_pc = "summarized"
  /\ page.last_modified = At(Now - 169)
  /\ page_summary.summary.freshness = [tag |-> "fresh", label |-> "days ago", days |-> 7]
  /\ ~page_summary.has_updates

\* ------------------------------------------- claims: messages paged twice

\* the places of the accumulated list that hold a message with an id
WithId == {i \in 1..Len(messages) : "id" \in DOMAIN messages[i]}

\* C29: each message id occurs at most once in the list that _get_messages
\* accumulates, whatever the remote answers.
C29_NoMessageTwice ==
  \A i, j \in WithId : i < j => messages[i].id # messages[j].id

\* C29, its case: the remote answered the second request with the page that
\* ends at the anchor again; the loop stopped on the anchor that did not
\* move, after appending the page a second time
C29_SamePageAppendedTwice ==
  /\ pc = "fetched"
  /\ requests = 2
  /\ ~seen_oldest
  /\ batch # <<>>
  /\ "id" \in DOMAIN Last(batch)
  /\ Last(batch).id = anchor
  /\ Len(messages) = 2 * Len(batch)
  /\ \E i, j \in WithId : i < j /\ messages[i].id = messages[j].id

====
